---------------------------- MODULE Spec2Model ----------------------------
(***************************************************************************)
(* Verification model of the mon-os kernel cores:                          *)
(*   - the AI-action transaction engine (kernel/src/apply_action.rs,       *)
(*     kernel/src/journal.rs, kernel/src/idt.rs counters);                 *)
(*   - the xHCI driver's ring producers, its event dispatcher, the        *)
(*     controller bring-up and the enumeration (kernel/src/xhci.rs,        *)
(*     kernel/src/main.rs);                                                *)
(*   - the physical memory allocator (kernel/src/pmm.rs);                  *)
(*   - the cooperative task table (kernel/src/task.rs);                    *)
(*   - the functions that compute a result from their arguments: the       *)
(*     configuration-descriptor parser of kernel/src/xhci.rs, the          *)
(*     weights layout of kernel/src/ai_model.rs and the agent step of      *)
(*     kernel/src/ai_agent.rs.                                             *)
(* Each subsystem has its own specifications; the variables of the other   *)
(* subsystems stay at their initial values there.                          *)
(***************************************************************************)
EXTENDS Integers, Sequences, FiniteSets, TLC

VARIABLES
    \* ---- apply_action.rs / idt.rs ----
    SYSTEM_READY,     \* static SYSTEM_READY: AtomicBool
    QUANTUM_US,       \* static mut QUANTUM_US: u32
    SEQ,              \* static mut SEQ: u64
    APPLY_LOCK,       \* static APPLY_LOCK: Mutex<()>; 0 = free, else the holder
    TIMER_TICKS,      \* idt.rs TIMER_TICKS
    PAGE_FAULTS,      \* idt.rs PAGE_FAULTS
    halted,           \* the CPU sits in a fault handler's halt_loop()
    journal,          \* the lines written to debug port 0xE9, in order
    ctx,              \* per calling context: position in ai_propose_action and its locals
    assigned,         \* history: per call, in call order, the seq it obtained
    \* ---- xhci.rs ----
    cs,               \* ControllerState (the fields the rings and the dispatcher use)
    rings,            \* the command, EP0 and interrupt TRB rings in memory
    event_ring,       \* the event ring segment in memory (written by the controller)
    CONTROLLER_LOCK,  \* the Mutex inside CONTROLLER_STATE: "free" or the function holding it
    doorbells,        \* the doorbell register writes, in order
    erdp,             \* the last value written to ERDP, as an event ring index
    drv,              \* the driver context: position inside the running operation
    enq_log,          \* history: per ring, the TRBs enqueued with the producer cycle at enqueue
    hw,               \* the controller's side: what it has consumed and produced
    \* ---- pmm.rs ----
    NEXT_FREE,        \* static NEXT_FREE: AtomicU64
    LIMIT,            \* static LIMIT: AtomicU64
    region,           \* history: the region pmm::init chose, [base, limit)
    alloc,            \* per caller: position in alloc_aligned and its locals
    granted,          \* history: the successful allocations, in order of return
    overflow_checks,  \* the build: arithmetic overflow panics (TRUE) or wraps (FALSE)
    \* ---- task.rs ----
    TASKS,            \* static TASKS: Mutex<[Option<TaskFn>; 8]>
    NEXT_INDEX,       \* static NEXT_INDEX: Mutex<usize>
    task_log,         \* history: the register and run_once calls with their results
    \* ---- xhci.rs parse_hid_keyboard_endpoint ----
    hid_parse,        \* the configuration descriptor in memory, and the call's result
    \* ---- ai_model.rs ----
    layout,           \* the model header given, and the layout the functions computed from it
    \* ---- ai_agent.rs, ai_link.rs ----
    agent,            \* AI_MODEL_ADDR/AI_MODEL_LEN and the blob, AGENT_STATE, and what the last step did
    \* ---- keyboard ----
    kbd,              \* keyboard.rs: modifier flags, the last scancode handled
    \* ---- rings beyond the driver state ----
    command_ring,     \* xhci.rs: a CommandRing object (trbs, enqueue, cycle_state)
    \* ---- ring consumers ----
    consumer,         \* the consumer of each producer ring: dequeue index, cycle state, TRBs seen
    \* ---- task.rs, call by call ----
    task_ctx,         \* the callbacks running, the task locks held, the last call made
    \* ---- main.rs kernel_main ----
    boot              \* how far kernel_main has come, and whether interrupts are enabled

txnVars  == <<SYSTEM_READY, QUANTUM_US, SEQ, APPLY_LOCK, TIMER_TICKS, PAGE_FAULTS,
              halted, journal, ctx, assigned>>
xhciVars == <<cs, rings, event_ring, CONTROLLER_LOCK, doorbells, erdp, drv, enq_log, hw>>
\* what the actions of one subsystem leave alone
pmmVars  == <<NEXT_FREE, LIMIT, region, alloc, granted, overflow_checks>>
taskVars == <<TASKS, NEXT_INDEX, task_log>>
calcVars == <<hid_parse, layout, agent, kbd, command_ring, consumer, task_ctx, boot>>
nonTxnVars  == <<xhciVars, pmmVars, taskVars, calcVars>>
nonXhciVars == <<txnVars, pmmVars, taskVars, calcVars>>
nonPmmVars  == <<txnVars, xhciVars, taskVars, calcVars>>
nonTaskVars == <<txnVars, xhciVars, pmmVars, calcVars>>
kernelVars  == <<txnVars, xhciVars, pmmVars, taskVars>>
vars     == <<SYSTEM_READY, QUANTUM_US, SEQ, APPLY_LOCK, TIMER_TICKS, PAGE_FAULTS,
              halted, journal, ctx, assigned,
              cs, rings, event_ring, CONTROLLER_LOCK, doorbells, erdp, drv, enq_log, hw,
              NEXT_FREE, LIMIT, region, alloc, granted, overflow_checks,
              TASKS, NEXT_INDEX, task_log,
              hid_parse, layout, agent, kbd, command_ring, consumer, task_ctx, boot>>

----------------------------------------------------------------------------
(* Bounds of the model *)

\* number of ai_propose_action calls explored
MaxCalls == 2
\* timer interrupts explored
MaxTicks == 2
\* iterations of the self-test busy loop (the code spins up to 50_000 times)
SpinBudget == 2
\* TRBs per producer ring, the Link TRB included (the code has 256, 64 and 128)
RingLen == 4
\* TRBs in the event ring segment (the code has 256)
EventRingLen == 3
\* enqueues explored per producer ring: two laps and one more
MaxEnq == 2 * (RingLen - 1) + 1
\* events the controller writes
MaxEvents == 4
\* register reads of one wait_for (the code reads up to 1_000_000 times)
WaitBudget == 2
\* iterations of one completion wait (the code passes 1_000_000)
PollBudget == 2
\* init_controller calls explored
MaxInits == 2
\* TRBs of the EP0 ring, the Link TRB included (the code has 64; an enumeration
\* enqueues 11, which wraps this ring once)
Ep0Trbs == 8
\* width of a machine word (the code has u64)
WordBits == 24
\* alloc_aligned calls explored per caller
MaxAllocs == 2
\* descriptors in a configuration descriptor
MaxDescs == 3
\* width of u32 and i32 in the telemetry arithmetic (the code has 32)
TelBits == 20
\* calls of ai_agent::step explored
MaxSteps == 2

----------------------------------------------------------------------------
(* ai_action.rs, apply_action.rs: constants *)

SetQuantum == 1
MigrateTask == 3
TrimCache == 4
QuantumInit == 1000
QuantumMin == 100
QuantumMax == 50000
TrimMaxBytes == 16777216
NotAllowed == 1
ExecuteFailed == 4
SelfTestFailed == 5

\* A u64 parameter is held as its two 32-bit halves, value = hi * 2^32 + lo
\* (the model checker's integers are 32 bits wide).
U64(hi, lo) == [hi |-> hi, lo |-> lo]

\* `x as u32` of a u64: the low half
AsU32(x) == x.lo

\* comparisons of a u64 with a constant below 2^31
U64Le(x, n) == x.hi = 0 /\ x.lo <= n
U64Ge(x, n) == x.hi > 0 \/ x.lo >= n

\* u64::saturating_sub
SaturatingSub(a, b) == IF a >= b THEN a - b ELSE 0

\* the two call sites of ai_propose_action: ai_agent::step and ai_agent_main
Ctx == {1, 2}

\* the action kinds and 64-bit parameters proposed
Kinds == {SetQuantum, MigrateTask, TrimCache}
Params == {U64(0, 0), U64(0, 99), U64(0, 100), U64(0, 2000), U64(0, 50000), U64(0, 50001),
           U64(1, 2000), U64(0, TrimMaxBytes), U64(0, TrimMaxBytes + 1)}

----------------------------------------------------------------------------
(* apply_action.rs: pure helpers *)

is_allowed(kind) == kind = SetQuantum \/ kind = TrimCache

\* a TrimCache check that lets 0 bytes through
validate_params_ZeroTrim(a) ==
    IF a.kind = SetQuantum
    THEN LET us == AsU32(a.param1) IN us >= QuantumMin /\ us <= QuantumMax
    ELSE IF a.kind = TrimCache
    THEN U64Le(a.param1, TrimMaxBytes)
    ELSE FALSE

\* a SetQuantum check without the upper bound
validate_params_NoUpper(a) ==
    IF a.kind = SetQuantum
    THEN LET us == AsU32(a.param1) IN us >= QuantumMin
    ELSE IF a.kind = TrimCache
    THEN U64Ge(a.param1, 1) /\ U64Le(a.param1, TrimMaxBytes)
    ELSE FALSE

validate_params(a) ==
    IF a.kind = SetQuantum
    THEN LET us == AsU32(a.param1) IN us >= QuantumMin /\ us <= QuantumMax
    ELSE IF a.kind = TrimCache
    THEN U64Ge(a.param1, 1) /\ U64Le(a.param1, TrimMaxBytes)
    ELSE FALSE

\* a gate that never closes
GateOpen_Always(ready) == TRUE

\* the gate of apply_action_atomic: TRUE when the action goes on to the transaction
GateOpen(ready) == ready

\* an execute step that forgets the write
ExecuteQuantum_NoWrite(a, q) == q

\* the value QUANTUM_US holds after the execute step
ExecuteQuantum(a, q) == IF a.kind = SetQuantum THEN AsU32(a.param1) ELSE q

\* write_quantum and trim_cache both return true; any other kind yields false
ExecuteOk(a) == a.kind = SetQuantum \/ a.kind = TrimCache

\* a rollback that leaves the applied value in place
RollbackQuantum_Keep(before, q) == q

\* the value QUANTUM_US holds after a failed self-test: write_quantum(before)
RollbackQuantum(before, q) == before

\* self_test_ok's verdict from the counters it sampled
SelfTestVerdict(start_ticks, start_pf, ticks, pf) ==
    LET dt == SaturatingSub(ticks, start_ticks)
        dp == SaturatingSub(pf, start_pf)
    IN dt >= 1 /\ dp = 0

(* journal.rs: one line per call of a journal_* function *)
Line(seq, verb, arg) == [seq |-> seq, verb |-> verb, arg |-> arg]
journal_intent(seq, a) == Line(seq, "INTENT", a.kind)
journal_commit(seq, a) == Line(seq, "APPLY_OK", a.kind)
journal_fail(seq, a, code) == Line(seq, "APPLY_FAIL", code)
journal_reject(seq, a) == Line(seq, "REJECT", a.kind)

\* a self-test failure that journals nothing
FinishLines_NoFailLine(seq, a, ok) ==
    IF ok THEN <<journal_commit(seq, a)>> ELSE << >>

\* the lines apply_action_atomic writes after the self-test
FinishLines(seq, a, ok) ==
    IF ok THEN <<journal_commit(seq, a)>>
          ELSE <<journal_fail(seq, a, SelfTestFailed)>>

----------------------------------------------------------------------------
(* The transaction engine as a state machine *)

IdleCtx == [pc |-> "idle", a |-> [kind |-> 0, param1 |-> U64(0, 0)], seq |-> 0, before |-> 0,
            spin |-> 0, start_ticks |-> 0, start_pf |-> 0, res |-> 0, rv |-> 0,
            entry_ready |-> FALSE, entry_q |-> 0, took_lock |-> FALSE, st |-> "none",
            call |-> 0]

InitTxn ==
    /\ SYSTEM_READY = FALSE
    /\ QUANTUM_US = QuantumInit
    /\ SEQ = 0
    /\ APPLY_LOCK = 0
    /\ TIMER_TICKS = 0
    /\ PAGE_FAULTS = 0
    /\ halted = FALSE
    /\ journal = << >>
    /\ ctx = [c \in Ctx |-> IdleCtx]
    /\ assigned = << >>

\* set_system_ready(): called by kernel_main between two task::run_once calls
set_system_ready ==
    /\ ~halted
    /\ \A c \in Ctx : ctx[c].pc = "idle"
    /\ ~SYSTEM_READY
    /\ SYSTEM_READY' = TRUE
    /\ UNCHANGED <<QUANTUM_US, SEQ, APPLY_LOCK, TIMER_TICKS, PAGE_FAULTS, halted,
                   journal, ctx, assigned>>
    /\ UNCHANGED nonTxnVars

\* idt.rs handlers::timer
TimerTick ==
    /\ ~halted
    /\ TIMER_TICKS < MaxTicks
    /\ TIMER_TICKS' = TIMER_TICKS + 1
    /\ UNCHANGED <<SYSTEM_READY, QUANTUM_US, SEQ, APPLY_LOCK, PAGE_FAULTS, halted,
                   journal, ctx, assigned>>
    /\ UNCHANGED nonTxnVars

\* idt.rs handlers::page_fault: counts the fault and never returns (halt_loop)
PageFault ==
    /\ ~halted
    /\ PAGE_FAULTS' = PAGE_FAULTS + 1
    /\ halted' = TRUE
    /\ UNCHANGED <<SYSTEM_READY, QUANTUM_US, SEQ, APPLY_LOCK, TIMER_TICKS,
                   journal, ctx, assigned>>
    /\ UNCHANGED nonTxnVars

\* ai_propose_action with a null action or outcome pointer
ProposeNull(c) ==
    /\ ~halted
    /\ ctx[c].pc = "idle"
    /\ ctx' = [ctx EXCEPT ![c].rv = -1]
    /\ UNCHANGED <<SYSTEM_READY, QUANTUM_US, SEQ, APPLY_LOCK, TIMER_TICKS, PAGE_FAULTS,
                   halted, journal, assigned>>
    /\ UNCHANGED nonTxnVars

\* ai_propose_action entered with valid pointers
Propose(c, kind, param1) ==
    /\ ~halted
    /\ ctx[c].pc = "idle"
    /\ Len(assigned) < MaxCalls
    /\ ctx' = [ctx EXCEPT ![c] = [IdleCtx EXCEPT !.pc = "seq_load",
                                     !.a = [kind |-> kind, param1 |-> param1],
                                     !.entry_ready = SYSTEM_READY,
                                     !.entry_q = QUANTUM_US]]
    /\ UNCHANGED <<SYSTEM_READY, QUANTUM_US, SEQ, APPLY_LOCK, TIMER_TICKS, PAGE_FAULTS,
                   halted, journal, assigned>>
    /\ UNCHANGED nonTxnVars

\* let s = SEQ;
SeqLoad(c) ==
    /\ ~halted
    /\ ctx[c].pc = "seq_load"
    /\ ctx' = [ctx EXCEPT ![c].pc = "seq_store", ![c].seq = SEQ,
                          ![c].call = Len(assigned) + 1]
    /\ assigned' = Append(assigned, [seq |-> SEQ, ready |-> ctx[c].entry_ready,
                                      done |-> FALSE])
    /\ UNCHANGED <<SYSTEM_READY, QUANTUM_US, SEQ, APPLY_LOCK, TIMER_TICKS, PAGE_FAULTS,
                   halted, journal>>
    /\ UNCHANGED nonTxnVars

\* a store that skips a number
SeqStoreValues_Skip(cur, loaded) == {cur + 2}

\* SEQ = SEQ.wrapping_add(1): a plain store to a static mut; the build may reload
\* SEQ or reuse the value loaded for s (the wrap at 2^64 lies beyond MaxCalls)
SeqStoreValues(cur, loaded) == {cur + 1, loaded + 1}

SeqStore(c) ==
    /\ ~halted
    /\ ctx[c].pc = "seq_store"
    /\ \E v \in SeqStoreValues(SEQ, ctx[c].seq) : SEQ' = v
    /\ ctx' = [ctx EXCEPT ![c].pc = "gate"]
    /\ UNCHANGED <<SYSTEM_READY, QUANTUM_US, APPLY_LOCK, TIMER_TICKS, PAGE_FAULTS,
                   halted, journal, assigned>>
    /\ UNCHANGED nonTxnVars

\* apply_action_atomic: the readiness gate and the validation, both ending in REJECT
Gate(c) ==
    /\ ~halted
    /\ ctx[c].pc = "gate"
    /\ IF ~GateOpen(SYSTEM_READY) \/ ~is_allowed(ctx[c].a.kind) \/ ~validate_params(ctx[c].a)
       THEN /\ journal' = Append(journal, journal_reject(ctx[c].seq, ctx[c].a))
            /\ ctx' = [ctx EXCEPT ![c].pc = "ret", ![c].res = NotAllowed]
       ELSE /\ journal' = journal
            /\ ctx' = [ctx EXCEPT ![c].pc = "lock"]
    /\ UNCHANGED <<SYSTEM_READY, QUANTUM_US, SEQ, APPLY_LOCK, TIMER_TICKS, PAGE_FAULTS,
                   halted, assigned>>
    /\ UNCHANGED nonTxnVars

\* a lock() that does not wait for the holder
LockAcquires_NoWait(lock) == TRUE

\* spin::Mutex::lock returns only when nobody holds the mutex
LockAcquires(lock) == lock = 0

\* let _g = APPLY_LOCK.lock();
Lock(c) ==
    /\ ~halted
    /\ ctx[c].pc = "lock"
    /\ LockAcquires(APPLY_LOCK)
    /\ APPLY_LOCK' = c
    /\ ctx' = [ctx EXCEPT ![c].pc = "snapshot", ![c].took_lock = TRUE]
    /\ UNCHANGED <<SYSTEM_READY, QUANTUM_US, SEQ, TIMER_TICKS, PAGE_FAULTS,
                   halted, journal, assigned>>
    /\ UNCHANGED nonTxnVars

\* let before = read_before_state();
Snapshot(c) ==
    /\ ~halted
    /\ ctx[c].pc = "snapshot"
    /\ ctx' = [ctx EXCEPT ![c].pc = "intent", ![c].before = QUANTUM_US]
    /\ UNCHANGED <<SYSTEM_READY, QUANTUM_US, SEQ, APPLY_LOCK, TIMER_TICKS, PAGE_FAULTS,
                   halted, journal, assigned>>
    /\ UNCHANGED nonTxnVars

\* journal::journal_intent(seq, a);
Intent(c) ==
    /\ ~halted
    /\ ctx[c].pc = "intent"
    /\ journal' = Append(journal, journal_intent(ctx[c].seq, ctx[c].a))
    /\ ctx' = [ctx EXCEPT ![c].pc = "execute"]
    /\ UNCHANGED <<SYSTEM_READY, QUANTUM_US, SEQ, APPLY_LOCK, TIMER_TICKS, PAGE_FAULTS,
                   halted, assigned>>
    /\ UNCHANGED nonTxnVars

\* the match on a.kind, and the ExecuteFailed exit
Execute(c) ==
    /\ ~halted
    /\ ctx[c].pc = "execute"
    /\ QUANTUM_US' = ExecuteQuantum(ctx[c].a, QUANTUM_US)
    /\ IF ExecuteOk(ctx[c].a)
       THEN /\ ctx' = [ctx EXCEPT ![c].pc = "st_start"]
            /\ UNCHANGED <<journal, APPLY_LOCK>>
       ELSE /\ journal' = Append(journal, journal_fail(ctx[c].seq, ctx[c].a, ExecuteFailed))
            /\ ctx' = [ctx EXCEPT ![c].pc = "ret", ![c].res = ExecuteFailed]
            /\ APPLY_LOCK' = 0
    /\ UNCHANGED <<SYSTEM_READY, SEQ, TIMER_TICKS, PAGE_FAULTS, halted, assigned>>
    /\ UNCHANGED nonTxnVars

\* self_test_ok: sample the counters
SelfTestStart(c) ==
    /\ ~halted
    /\ ctx[c].pc = "st_start"
    /\ ctx' = [ctx EXCEPT ![c].pc = "st_spin", ![c].spin = 0,
                          ![c].start_ticks = TIMER_TICKS, ![c].start_pf = PAGE_FAULTS]
    /\ UNCHANGED <<SYSTEM_READY, QUANTUM_US, SEQ, APPLY_LOCK, TIMER_TICKS, PAGE_FAULTS,
                   halted, journal, assigned>>
    /\ UNCHANGED nonTxnVars

\* self_test_ok: one iteration of the bounded busy loop
SelfTestSpin(c) ==
    /\ ~halted
    /\ ctx[c].pc = "st_spin"
    /\ ctx[c].spin < SpinBudget
    /\ ctx' = [ctx EXCEPT ![c].spin = @ + 1,
                          ![c].pc = IF SaturatingSub(TIMER_TICKS, ctx[c].start_ticks) >= 1
                                       \/ ctx[c].spin + 1 = SpinBudget
                                    THEN "st_eval" ELSE "st_spin"]
    /\ UNCHANGED <<SYSTEM_READY, QUANTUM_US, SEQ, APPLY_LOCK, TIMER_TICKS, PAGE_FAULTS,
                   halted, journal, assigned>>
    /\ UNCHANGED nonTxnVars

\* self_test_ok's verdict, then commit or rollback; the guard _g is dropped on return
Finish(c) ==
    /\ ~halted
    /\ ctx[c].pc = "st_eval"
    /\ LET ok == SelfTestVerdict(ctx[c].start_ticks, ctx[c].start_pf, TIMER_TICKS, PAGE_FAULTS)
       IN /\ journal' = journal \o FinishLines(ctx[c].seq, ctx[c].a, ok)
          /\ QUANTUM_US' = IF ok THEN QUANTUM_US
                                 ELSE RollbackQuantum(ctx[c].before, QUANTUM_US)
          /\ ctx' = [ctx EXCEPT ![c].pc = "ret",
                                ![c].res = IF ok THEN 0 ELSE SelfTestFailed,
                                ![c].st = IF ok THEN "pass" ELSE "fail"]
    /\ APPLY_LOCK' = 0
    /\ UNCHANGED <<SYSTEM_READY, SEQ, TIMER_TICKS, PAGE_FAULTS, halted, assigned>>
    /\ UNCHANGED nonTxnVars

\* (*outcome).result = res; return 0
Return(c) ==
    /\ ~halted
    /\ ctx[c].pc = "ret"
    /\ ctx' = [ctx EXCEPT ![c].pc = "idle", ![c].rv = 0]
    /\ assigned' = [assigned EXCEPT ![ctx[c].call].done = TRUE]
    /\ UNCHANGED <<SYSTEM_READY, QUANTUM_US, SEQ, APPLY_LOCK, TIMER_TICKS, PAGE_FAULTS,
                   halted, journal>>
    /\ UNCHANGED nonTxnVars

ProposeStep(c, K, P) ==
    \/ ProposeNull(c)
    \/ \E k \in K, p \in P : Propose(c, k, p)
    \/ SeqLoad(c)
    \/ SeqStore(c)
    \/ Gate(c)
    \/ Lock(c)
    \/ Snapshot(c)
    \/ Intent(c)
    \/ Execute(c)
    \/ SelfTestStart(c)
    \/ SelfTestSpin(c)
    \/ Finish(c)
    \/ Return(c)

----------------------------------------------------------------------------
(* Option<T>: None is the empty set, Some(x) the singleton *)

None == {}
Some(x) == {x}

----------------------------------------------------------------------------
(* pmm.rs: the bump allocator *)

PAGE_SIZE == 4096

\* u64 values and their bitwise operators, at the model's word width
Word == 2 ^ WordBits

RECURSIVE BitAnd(_, _, _)
BitAnd(a, b, bits) ==
    IF bits = 0 THEN 0
    ELSE (a % 2) * (b % 2) + 2 * BitAnd(a \div 2, b \div 2, bits - 1)

BitNot(a) == Word - 1 - a

Max(a, b) == IF a >= b THEN a ELSE b

\* align_up(value, align) = (value + align - 1) & !(align - 1): the value the
\* wrapping arithmetic gives, and whether the addition overflowed
align_up(value, align) ==
    LET sum == value + align - 1
    IN  [overflow |-> sum >= Word,
         value |-> BitAnd(sum % Word, BitNot(align - 1), WordBits)]

\* align_down(value, align) = value & !(align - 1)
align_down(value, align) == BitAnd(value, BitNot(align - 1), WordBits)

\* u64::checked_add
checked_add(a, b) == IF a + b >= Word THEN None ELSE Some(a + b)

\* the first test of alloc_aligned
AlignRejected(align) == align = 0 \/ BitAnd(align, align - 1, WordBits) # 0

\* AtomicU64::compare_exchange that stores without comparing
compare_exchange_Store(cell, current, new) == [ok |-> TRUE, value |-> new]

\* AtomicU64::compare_exchange
compare_exchange(cell, current, new) ==
    IF cell = current THEN [ok |-> TRUE, value |-> new]
    ELSE [ok |-> FALSE, value |-> cell]

\* the memory maps the boot loader hands over: entries [base_addr, length, usable]
MemoryMaps ==
    {<< >>,
     <<[base_addr |-> 0, length |-> 4000, usable |-> TRUE],
       [base_addr |-> 4096, length |-> 65536, usable |-> FALSE]>>,
     <<[base_addr |-> 4196, length |-> 3 * 4096, usable |-> TRUE]>>,
     <<[base_addr |-> 4096, length |-> 4096, usable |-> TRUE],
       [base_addr |-> 16384, length |-> 3 * 4096 + 100, usable |-> TRUE]>>}

\* pmm::init: the largest page-aligned usable region; NEXT_FREE and LIMIT stay 0
\* when there is none of at least one page
RECURSIVE BestRegion(_, _)
BestRegion(map, best) ==
    IF map = << >> THEN best
    ELSE LET entry == Head(map)
             start == align_up(entry.base_addr, PAGE_SIZE).value
             end == align_down(entry.base_addr + entry.length, PAGE_SIZE)
         IN  IF ~entry.usable \/ end <= start \/ end - start <= best.len
             THEN BestRegion(Tail(map), best)
             ELSE BestRegion(Tail(map), [base |-> start, len |-> end - start])

pmm_init(map) ==
    LET best == BestRegion(map, [base |-> 0, len |-> 0])
    IN  IF best.len >= PAGE_SIZE
        THEN [next_free |-> best.base, limit |-> best.base + best.len]
        ELSE [next_free |-> 0, limit |-> 0]

\* the contexts that call alloc_aligned
Callers == {1, 2}

IdleAlloc ==
    [pc |-> "idle", size |-> 0, align |-> 0, adj_size |-> 0, current |-> 0,
     limit |-> 0, aligned |-> 0, end |-> 0, ret |-> None,
     \* history: NEXT_FREE at the call, calls made, failed compare_exchanges
     entry |-> 0, calls |-> 0, retries |-> 0]

\* the statics before pmm::init
IdlePmm ==
    /\ NEXT_FREE = 0
    /\ LIMIT = 0
    /\ region = [base |-> 0, limit |-> 0]
    /\ alloc = [c \in Callers |-> IdleAlloc]
    /\ granted = << >>
    /\ overflow_checks = FALSE

\* after pmm::init(boot_info), for either build
PmmReady ==
    /\ \E map \in MemoryMaps :
          LET r == pmm_init(map)
          IN  /\ NEXT_FREE = r.next_free
              /\ LIMIT = r.limit
              /\ region = [base |-> r.next_free, limit |-> r.limit]
    /\ alloc = [c \in Callers |-> IdleAlloc]
    /\ granted = << >>
    /\ overflow_checks \in BOOLEAN

Panicked == \E c \in Callers : alloc[c].pc = "panic"

\* alloc_aligned(size, align), l.46-50: the align test and the rounded size
alloc_aligned(c, size, align) ==
    /\ ~Panicked
    /\ alloc[c].pc = "idle" /\ alloc[c].calls < MaxAllocs
    /\ LET a == [IdleAlloc EXCEPT !.size = size, !.align = align,
                                  !.entry = NEXT_FREE, !.calls = alloc[c].calls + 1]
           adj == align_up(size, Max(PAGE_SIZE, align))
       IN  alloc' = [alloc EXCEPT ![c] =
              IF AlignRejected(align) THEN [a EXCEPT !.pc = "done"]
              ELSE IF adj.overflow /\ overflow_checks THEN [a EXCEPT !.pc = "panic"]
              ELSE [a EXCEPT !.pc = "load", !.adj_size = adj.value]]
    /\ UNCHANGED <<NEXT_FREE, LIMIT, region, granted, overflow_checks>>
    /\ UNCHANGED nonPmmVars

\* l.52-62: load the cursor and the limit, compute the range
alloc_load(c) ==
    /\ ~Panicked
    /\ alloc[c].pc = "load"
    /\ LET a == [alloc[c] EXCEPT !.current = NEXT_FREE, !.limit = LIMIT]
           up == align_up(a.current, a.align)
           end == checked_add(up.value, a.adj_size)
       IN  alloc' = [alloc EXCEPT ![c] =
              IF a.current = 0 \/ a.current >= a.limit THEN [a EXCEPT !.pc = "done"]
              ELSE IF up.overflow /\ overflow_checks THEN [a EXCEPT !.pc = "panic"]
              ELSE IF end = None THEN [a EXCEPT !.pc = "done", !.aligned = up.value]
              ELSE LET e == CHOOSE x \in end : TRUE
                   IN  IF e > a.limit
                       THEN [a EXCEPT !.pc = "done", !.aligned = up.value, !.end = e]
                       ELSE [a EXCEPT !.pc = "cas", !.aligned = up.value, !.end = e]]
    /\ UNCHANGED <<NEXT_FREE, LIMIT, region, granted, overflow_checks>>
    /\ UNCHANGED nonPmmVars

\* l.63-68: compare_exchange(current, end); Some(aligned) on success, else loop
alloc_cas(c) ==
    /\ ~Panicked
    /\ alloc[c].pc = "cas"
    /\ LET x == compare_exchange(NEXT_FREE, alloc[c].current, alloc[c].end)
       IN  /\ NEXT_FREE' = x.value
           /\ alloc' = [alloc EXCEPT ![c] =
                 IF x.ok THEN [@ EXCEPT !.pc = "done", !.ret = Some(alloc[c].aligned)]
                 ELSE [@ EXCEPT !.pc = "load", !.retries = @ + 1]]
           /\ granted' = IF x.ok
                         THEN Append(granted, [caller |-> c, addr |-> alloc[c].aligned,
                                               size |-> alloc[c].size,
                                               align |-> alloc[c].align])
                         ELSE granted
    /\ UNCHANGED <<LIMIT, region, overflow_checks>>
    /\ UNCHANGED nonPmmVars

\* the caller has the result and goes on
alloc_return(c) ==
    /\ ~Panicked
    /\ alloc[c].pc = "done"
    /\ alloc' = [alloc EXCEPT ![c].pc = "idle"]
    /\ UNCHANGED <<NEXT_FREE, LIMIT, region, granted, overflow_checks>>
    /\ UNCHANGED nonPmmVars

\* sizes and alignments requested: ordinary ones, and sizes whose round-up to a
\* page does not fit the word
Sizes == {0, 1, PAGE_SIZE + 1, Word - PAGE_SIZE, Word - PAGE_SIZE + 1, Word - 1}
Aligns == {0, 3, 64, 2 * PAGE_SIZE, Word \div 2}

AllocStep(c, S, A) ==
    \/ \E size \in S, align \in A : alloc_aligned(c, size, align)
    \/ alloc_load(c)
    \/ alloc_cas(c)
    \/ alloc_return(c)

----------------------------------------------------------------------------
(* task.rs: the cooperative task table *)

\* length of TASKS
TaskSlots == 8

\* the functions registered as tasks
TaskFns == {"step", "other"}

SlotIndex == 0..(TaskSlots - 1)

\* an iteration order that ends at the last empty slot
FirstEmpty_Last(tasks) ==
    IF \E i \in SlotIndex : tasks[i] = None
    THEN CHOOSE i \in SlotIndex :
            tasks[i] = None /\ \A j \in (i + 1)..(TaskSlots - 1) : tasks[j] # None
    ELSE TaskSlots

\* the first slot `slots.iter_mut()` finds empty; TaskSlots when there is none
FirstEmpty(tasks) ==
    IF \E i \in SlotIndex : tasks[i] = None
    THEN CHOOSE i \in SlotIndex : tasks[i] = None /\ \A j \in 0..(i - 1) : tasks[j] # None
    ELSE TaskSlots

\* runqueue_len
runqueue_len(tasks) == Cardinality({i \in SlotIndex : tasks[i] # None})

\* a cursor that does not wrap at the end of the table
NextIndex_NoWrap(idx, len) == idx + 1

\* a cursor that stays where it is
NextIndex_Stay(idx, len) == idx % len

\* *idx = (*idx + 1) % len
NextIndex(idx, len) == (idx + 1) % len

\* the loop of run_once with `left` iterations to go: the cursor afterwards and
\* the slots whose function was called
RECURSIVE Scan(_, _, _)
Scan(tasks, idx, left) ==
    IF left = 0 THEN [idx |-> idx, invoked |-> << >>]
    ELSE LET i == idx % TaskSlots
             next == NextIndex(idx, TaskSlots)
         IN  IF tasks[i] # None
             THEN [idx |-> next, invoked |-> <<i>>]
             ELSE Scan(tasks, next, left - 1)

\* the last TaskSlots entries of a history
LastRuns(runs) ==
    IF Len(runs) <= TaskSlots THEN runs
    ELSE SubSeq(runs, Len(runs) - TaskSlots + 1, Len(runs))

NoCall == [op |-> "none", result |-> FALSE, invoked |-> << >>,
           tasks |-> [i \in SlotIndex |-> None], idx |-> 0, fn |-> "none"]

\* the statics as declared, before any call
IdleTask ==
    /\ TASKS = [i \in SlotIndex |-> None]
    /\ NEXT_INDEX = 0
    /\ task_log = [runs |-> << >>, last |-> NoCall]

\* register(task)
register(task) ==
    /\ LET slot == FirstEmpty(TASKS)
           stored == slot < TaskSlots
       IN  /\ TASKS' = IF stored THEN [TASKS EXCEPT ![slot] = Some(task)] ELSE TASKS
           /\ task_log' = [runs |-> IF stored THEN << >> ELSE task_log.runs,
                           last |-> [op |-> "register", result |-> stored,
                                     invoked |-> << >>, tasks |-> TASKS,
                                     idx |-> NEXT_INDEX, fn |-> task]]
    /\ UNCHANGED NEXT_INDEX
    /\ UNCHANGED nonTaskVars

\* run_once(): both locks are taken, the table is scanned from the cursor, the
\* locks are dropped and the function found is called
run_once ==
    /\ LET r == Scan(TASKS, NEXT_INDEX, TaskSlots)
       IN  /\ NEXT_INDEX' = r.idx
           /\ task_log' = [runs |-> LastRuns(task_log.runs \o r.invoked),
                           last |-> [op |-> "run_once", result |-> r.invoked # << >>,
                                     invoked |-> r.invoked, tasks |-> TASKS,
                                     idx |-> NEXT_INDEX, fn |-> "none"]]
    /\ UNCHANGED TASKS
    /\ UNCHANGED nonTaskVars

NextTask ==
    \/ \E task \in TaskFns : register(task)
    \/ run_once

----------------------------------------------------------------------------
(* task.rs call by call: the locks of run_once, register and runqueue_len, and
   the calls a callback makes while it runs *)

\* run_once calls nested inside callbacks
MaxDepth == 2
\* calls of run_once, register and runqueue_len explored
MaxTaskCalls == 5

\* a run_once that calls f() with its guards alive
held_at_call_NoDrop(held) == held

\* l.27-28: drop(slots); drop(idx); before f()
held_at_call(held) == {}

\* no callback runs, no lock is held, nothing has been called
IdleTaskCtx ==
    task_ctx = [stack |-> << >>, held |-> {}, acquired |-> << >>, spin |-> "none",
                last |-> "none", len |-> 0, calls |-> 0]

\* a call can be made: by kernel_main, or by the callback that is running
CanCall == task_ctx.spin = "none" /\ task_ctx.calls < MaxTaskCalls

\* the call found a lock held by a function below it on the stack: lock()
\* never returns
Spins(name, acquired) ==
    [task_ctx EXCEPT !.spin = name, !.acquired = acquired, !.last = name,
                     !.calls = @ + 1]

\* run_once up to f(): NEXT_INDEX.lock(), TASKS.lock(), the scan from the
\* cursor, and either the return (nothing registered) or the two drops and the
\* call of the function found
call_run_once ==
    /\ CanCall
    /\ Len(task_ctx.stack) < MaxDepth
    /\ IF "NEXT_INDEX" \in task_ctx.held
       THEN task_ctx' = Spins("run_once", << >>) /\ UNCHANGED NEXT_INDEX
       ELSE IF "TASKS" \in task_ctx.held
       THEN task_ctx' = Spins("run_once", <<"NEXT_INDEX">>) /\ UNCHANGED NEXT_INDEX
       ELSE LET r == Scan(TASKS, NEXT_INDEX, TaskSlots)
                found == r.invoked # << >>
            IN  /\ NEXT_INDEX' = r.idx
                /\ task_ctx' =
                      [task_ctx EXCEPT
                          !.acquired = <<"NEXT_INDEX", "TASKS">>,
                          !.last = "run_once", !.calls = @ + 1,
                          !.held = IF found THEN held_at_call({"NEXT_INDEX", "TASKS"})
                                   ELSE {},
                          !.stack = IF found
                                    THEN Append(@, CHOOSE f \in TASKS[r.invoked[1]] : TRUE)
                                    ELSE @]
    /\ UNCHANGED <<TASKS, task_log>>
    /\ UNCHANGED <<txnVars, xhciVars, pmmVars>>
    /\ UNCHANGED <<hid_parse, layout, agent, kbd, command_ring, consumer, boot>>

\* register(task), called by kernel_main or by the running callback
call_register(task) ==
    /\ CanCall
    /\ IF "TASKS" \in task_ctx.held
       THEN task_ctx' = Spins("register", << >>) /\ UNCHANGED TASKS
       ELSE LET slot == FirstEmpty(TASKS)
            IN  /\ TASKS' = IF slot < TaskSlots
                            THEN [TASKS EXCEPT ![slot] = Some(task)] ELSE TASKS
                /\ task_ctx' = [task_ctx EXCEPT !.acquired = <<"TASKS">>,
                                                !.last = "register", !.calls = @ + 1]
    /\ UNCHANGED <<NEXT_INDEX, task_log>>
    /\ UNCHANGED <<txnVars, xhciVars, pmmVars>>
    /\ UNCHANGED <<hid_parse, layout, agent, kbd, command_ring, consumer, boot>>

\* runqueue_len(), called by the running callback (the agent's step calls it
\* from gather_telemetry)
call_runqueue_len ==
    /\ CanCall
    /\ task_ctx.stack # << >>
    /\ IF "TASKS" \in task_ctx.held
       THEN task_ctx' = Spins("runqueue_len", << >>)
       ELSE task_ctx' = [task_ctx EXCEPT !.acquired = <<"TASKS">>,
                                         !.last = "runqueue_len", !.calls = @ + 1,
                                         !.len = runqueue_len(TASKS)]
    /\ UNCHANGED <<TASKS, NEXT_INDEX, task_log>>
    /\ UNCHANGED <<txnVars, xhciVars, pmmVars>>
    /\ UNCHANGED <<hid_parse, layout, agent, kbd, command_ring, consumer, boot>>

\* the running callback returns, and the run_once that called it returns
callback_returns ==
    /\ task_ctx.spin = "none"
    /\ task_ctx.stack # << >>
    /\ task_ctx' = [task_ctx EXCEPT !.stack = SubSeq(@, 1, Len(@) - 1), !.held = {},
                                    !.last = "return"]
    /\ UNCHANGED <<TASKS, NEXT_INDEX, task_log>>
    /\ UNCHANGED <<txnVars, xhciVars, pmmVars>>
    /\ UNCHANGED <<hid_parse, layout, agent, kbd, command_ring, consumer, boot>>

NextTaskCalls ==
    \/ call_run_once
    \/ \E task \in TaskFns : call_register(task)
    \/ call_runqueue_len
    \/ callback_returns

----------------------------------------------------------------------------
(* xhci.rs: parse_hid_keyboard_endpoint *)

\* descriptors a device may send: configuration, boot-keyboard interface, mouse
\* interface, an 8-byte interface with the keyboard triple, interrupt IN
\* endpoint, interrupt OUT endpoint, bulk IN endpoint, an IN endpoint with upper
\* attribute bits and a 1024-byte packet, a 6-byte endpoint, a zero bLength and
\* a bLength of one
DescriptorChunks ==
    {<<9, 2, 34, 0, 1, 1, 0, 160, 50>>,
     <<9, 4, 0, 0, 1, 3, 1, 1, 0>>,
     <<9, 4, 1, 0, 1, 3, 1, 2, 0>>,
     <<8, 4, 0, 0, 1, 3, 1, 1>>,
     <<7, 5, 129, 3, 8, 0, 10>>,
     <<7, 5, 1, 3, 8, 0, 10>>,
     <<7, 5, 130, 2, 0, 2, 0>>,
     <<7, 5, 131, 7, 0, 4, 1>>,
     <<6, 5, 129, 3, 8, 0>>,
     <<0, 5>>,
     <<1>>}

\* bytes the transfer may have left off the end (total_len shorter than the data)
Cuts == {0, 1, 3, 6}

RECURSIVE Concat(_)
Concat(chunks) == IF chunks = << >> THEN << >> ELSE Head(chunks) \o Concat(Tail(chunks))

\* the byte sequences of length total_len handed to the parser
ConfigDescriptors ==
    {LET all == Concat(chunks)
     IN  SubSeq(all, 1, IF Len(all) >= cut THEN Len(all) - cut ELSE 0) :
        chunks \in UNION {[1..n -> DescriptorChunks] : n \in 0..MaxDescs}, cut \in Cuts}

\* bytes[i]; the slice has total_len bytes, a read beyond it is recorded and
\* gives no descriptor byte
ByteAt(bytes, i) == IF i < Len(bytes) THEN bytes[i + 1] ELSE 0

\* class == 3 && subclass == 1 && proto == 1
IsBootKeyboard(class, subclass, proto) == class = 3 /\ subclass = 1 /\ proto = 1

\* an endpoint test that takes either direction
IsInterruptIn_AnyDirection(addr, attrs) == attrs = 3

\* (addr & 0x80) != 0 && attrs == 3, attrs being bytes[i + 3] & 0x3
IsInterruptIn(addr, attrs) == BitAnd(addr, 128, 8) # 0 /\ attrs = 3

\* the while loop from offset i: the value returned and the highest index read
RECURSIVE ParseFrom(_, _, _, _)
ParseFrom(bytes, i, in_hid_iface, last_read) ==
    IF i + 2 > Len(bytes) THEN [ret |-> None, last_read |-> last_read]
    ELSE
      LET b_len == ByteAt(bytes, i)
      IN  IF b_len = 0 THEN [ret |-> None, last_read |-> Max(last_read, i)]
          ELSE IF i + b_len > Len(bytes) THEN [ret |-> None, last_read |-> Max(last_read, i)]
          ELSE
            LET dtype == ByteAt(bytes, i + 1)
            IN  IF dtype = 4 /\ b_len >= 9
                THEN ParseFrom(bytes, i + b_len,
                               IsBootKeyboard(ByteAt(bytes, i + 5), ByteAt(bytes, i + 6),
                                              ByteAt(bytes, i + 7)),
                               Max(last_read, i + 7))
                ELSE IF dtype = 5 /\ in_hid_iface /\ b_len >= 7
                THEN LET addr == ByteAt(bytes, i + 2)
                         attrs == BitAnd(ByteAt(bytes, i + 3), 3, 8)
                         maxp == ByteAt(bytes, i + 4) + 256 * ByteAt(bytes, i + 5)
                         interval == ByteAt(bytes, i + 6)
                     IN  IF IsInterruptIn(addr, attrs)
                         THEN [ret |-> Some([addr |-> addr, maxp |-> maxp,
                                             interval |-> interval]),
                               last_read |-> Max(last_read, i + 6)]
                         ELSE ParseFrom(bytes, i + b_len, in_hid_iface,
                                        Max(last_read, i + 6))
                ELSE ParseFrom(bytes, i + b_len, in_hid_iface, Max(last_read, i + 1))

\* no parse has been asked for
IdleParse == hid_parse = [bytes |-> << >>, pc |-> "none", ret |-> None, last_read |-> -1]

\* a configuration descriptor of total_len bytes is in memory
ParseReady ==
    \E bytes \in ConfigDescriptors :
        hid_parse = [bytes |-> bytes, pc |-> "idle", ret |-> None, last_read |-> -1]

\* parse_hid_keyboard_endpoint(cfg_phys, total_len)
parse_hid_keyboard_endpoint ==
    /\ hid_parse.pc = "idle"
    /\ LET r == ParseFrom(hid_parse.bytes, 0, FALSE, -1)
       IN  hid_parse' = [hid_parse EXCEPT !.pc = "done", !.ret = r.ret,
                                          !.last_read = r.last_read]
    /\ UNCHANGED <<kernelVars, layout, agent, kbd, command_ring, consumer, task_ctx, boot>>

----------------------------------------------------------------------------
(* ai_model.rs: the model header and the weights layout *)

\* ModelHeader::PAYLOAD_OFFSET
PAYLOAD_OFFSET == 16

\* the headers a blob may start with (n_layers and hidden are u16, vocab is u32,
\* dtype is u8)
ModelHeaders ==
    [magic : {"AIMD", "AIMX"}, n_layers : {0, 1, 2, 3}, hidden : {0, 1, 2, 16},
     vocab : {0, 1, 3, 1000}, dtype : {0, 1, 2}]

\* ModelHeader::valid
valid(h) ==
    /\ h.magic = "AIMD"
    /\ h.n_layers >= 1
    /\ h.hidden >= 1
    /\ (h.dtype = 0 \/ h.dtype = 1)

\* usize::saturating_add, usize::saturating_mul
saturating_add(a, b) == IF a + b >= Word THEN Word - 1 ELSE a + b
saturating_mul(a, b) == IF a * b >= Word THEN Word - 1 ELSE a * b

\* a last layer as wide as the others
last_out_Hidden(h) == h.hidden

\* let last_out = if h.vocab != 0 { h.vocab as usize } else { hidden }
last_out(h) == IF h.vocab # 0 THEN h.vocab ELSE h.hidden

\* let out_dim = if l + 1 == nl { last_out } else { hidden }
out_dim(h, l) == IF l + 1 = h.n_layers THEN last_out(h) ELSE h.hidden

\* the loop `for l in from..to` that adds the weight and bias bytes of a layer
RECURSIVE SumLayers(_, _, _, _)
SumLayers(h, from, to, total) ==
    IF from >= to THEN total
    ELSE SumLayers(h, from + 1, to,
                   saturating_add(saturating_add(total, saturating_mul(h.hidden, out_dim(h, from))),
                                  saturating_mul(out_dim(h, from), 4)))

\* WeightsLayout::compute: total_bytes
compute(h) ==
    IF h.dtype # 0 THEN None
    ELSE IF h.n_layers = 0 THEN None
    ELSE Some(SumLayers(h, 0, h.n_layers, 0))

\* layer_ptr_int8(base, h, layer): the pointer as an offset from base
layer_ptr_int8(h, layer) ==
    IF h.dtype # 0 THEN None
    ELSE IF layer >= h.n_layers THEN None
    ELSE Some(PAYLOAD_OFFSET + SumLayers(h, 0, layer, 0))

\* layer_dims(h, layer)
layer_dims(h, layer) ==
    IF layer >= h.n_layers THEN None
    ELSE Some([in_dim |-> h.hidden, out_dim |-> out_dim(h, layer)])

\* bias_ptr_i32(base, h, layer): the pointer as an offset from base
bias_ptr_i32(h, layer) ==
    IF h.dtype # 0 THEN None
    ELSE IF layer >= h.n_layers THEN None
    ELSE Some(PAYLOAD_OFFSET
              + saturating_add(SumLayers(h, 0, layer, 0),
                               saturating_mul(h.hidden, out_dim(h, layer))))

IdleLayout == layout = [pc |-> "none", h |-> << >>, total |-> None, layers |-> << >>]

\* a header has been read from the blob
LayoutReady ==
    \E h \in ModelHeaders :
        layout = [pc |-> "idle", h |-> h, total |-> None, layers |-> << >>]

\* WeightsLayout::compute, then layer_ptr_int8, bias_ptr_i32 and layer_dims for
\* the layers 0..n_layers, one past the last included
compute_layout ==
    /\ layout.pc = "idle"
    /\ layout' = [layout EXCEPT
          !.pc = "done",
          !.total = compute(layout.h),
          !.layers = [l \in 1..(layout.h.n_layers + 1) |->
                         [weights |-> layer_ptr_int8(layout.h, l - 1),
                          bias |-> bias_ptr_i32(layout.h, l - 1),
                          dims |-> layer_dims(layout.h, l - 1)]]]
    /\ UNCHANGED <<kernelVars, hid_parse, agent, kbd, command_ring, consumer, task_ctx, boot>>

----------------------------------------------------------------------------
(* ai_agent.rs: telemetry, inference and the step *)

REQUIRES_SNAPSHOT == 1
NEEDS_MANUAL_CONFIRM == 4
\* default configuration (neither ai_cfg_aggr nor ai_cfg_conservative)
REQUANT_SHIFT == 6
QUANTUM_BASE_US == 1000
QUANTUM_SCALE == 20
MEM_LOW_KB == 8192
PF_RATE_THRESH == 0
TRIM_BYTES == 1048576

U32 == 2 ^ TelBits

\* `x as u32`
as_u32(x) == x % U32

\* `x as i32` of an unsigned value, and the wrapped result of i32 arithmetic
as_i32(x) == LET y == x % U32 IN IF y >= U32 \div 2 THEN y - U32 ELSE y

fits_i32(x) == -(U32 \div 2) <= x /\ x < U32 \div 2

\* i32 `/`: rounds toward zero
TruncDiv(a, b) == IF a >= 0 THEN a \div b ELSE -((-a) \div b)

Min(a, b) == IF a <= b THEN a ELSE b

\* the byte patterns of a blob's payload, as i8 at a byte offset
Payloads == {"ones", "mixed", "large"}
PayloadI8(payload, o) ==
    CASE payload = "ones" -> 1
      [] payload = "mixed" -> IF o % 2 = 0 THEN 64 ELSE -3
      [] OTHER -> 100

\* the little-endian i32 at a byte offset
PayloadI32(payload, o) ==
    LET u(k) == PayloadI8(payload, o + k) % 256
    IN  u(0) + 256 * u(1) + 65536 * u(2) + 16777216 * PayloadI8(payload, o + 3)

\* the blobs a loader may have left: none, or a header and len bytes
NoBlob == [present |-> FALSE, len |-> 0,
           hdr |-> [magic |-> "none", n_layers |-> 0, hidden |-> 0, vocab |-> 0, dtype |-> 0],
           payload |-> "ones"]
AgentHeaders ==
    {[magic |-> "AIMD", n_layers |-> 1, hidden |-> 2, vocab |-> 0, dtype |-> 0],
     [magic |-> "AIMD", n_layers |-> 2, hidden |-> 4, vocab |-> 1, dtype |-> 0],
     [magic |-> "AIMD", n_layers |-> 2, hidden |-> 2, vocab |-> 300, dtype |-> 0],
     [magic |-> "AIMD", n_layers |-> 1, hidden |-> 2, vocab |-> 0, dtype |-> 1],
     [magic |-> "AIMX", n_layers |-> 1, hidden |-> 2, vocab |-> 0, dtype |-> 0]}
Blobs ==
    {NoBlob} \cup
    {[present |-> TRUE, len |-> len, hdr |-> h, payload |-> p] :
        h \in AgentHeaders, p \in Payloads, len \in {16, 27, 28, 63, 64, 2000}}

\* load_model(AI_MODEL_ADDR)
load_model(blob) ==
    IF ~blob.present THEN None
    ELSE IF ~valid(blob.hdr) THEN None
    ELSE Some(blob.hdr)

\* what gather_telemetry reads: idt::timer_ticks(), idt::page_faults(),
\* pmm::free_kib() and task::runqueue_len()
Samples ==
    {[ticks |-> 0, pf |-> 0, free_kib |-> 0, runq |-> 0],
     [ticks |-> 1, pf |-> 0, free_kib |-> 8191, runq |-> 1],
     [ticks |-> 1, pf |-> 0, free_kib |-> 8192, runq |-> 1],
     [ticks |-> 7, pf |-> 0, free_kib |-> 65536, runq |-> 8],
     [ticks |-> 300, pf |-> 0, free_kib |-> 16384, runq |-> 2],
     [ticks |-> 2, pf |-> 0, free_kib |-> 524288, runq |-> 0],
     [ticks |-> 2, pf |-> 1, free_kib |-> 65536, runq |-> 1],
     [ticks |-> U32 + 5, pf |-> 0, free_kib |-> 65536, runq |-> 1],
     [ticks |-> 3, pf |-> 3, free_kib |-> 100, runq |-> 1]}

\* gather_telemetry(prev_ticks, prev_pf)
gather_telemetry(prev_ticks, prev_pf, now) ==
    [irq_errors |-> 0,
     runq |-> as_u32(now.runq),
     irq_rate |-> as_u32(SaturatingSub(now.ticks, prev_ticks)),
     free_kb |-> as_u32(now.free_kib),
     pf_rate |-> as_u32(SaturatingSub(now.pf, prev_pf))]

\* has_weights: need > PAYLOAD_OFFSET && model_len >= need, need being
\* total_bytes + PAYLOAD_OFFSET or 0
has_weights(hdr, model_len) ==
    LET w == compute(hdr)
        need == IF w = None THEN 0 ELSE (CHOOSE t \in w : TRUE) + PAYLOAD_OFFSET
    IN  need > PAYLOAD_OFFSET /\ model_len >= need

\* the input vector: in_slice of length min(hidden, 256), copied into xbuf
InputVector(hdr, tel) ==
    LET len == Min(hdr.hidden, 256)
        f == <<Min(tel.runq, 127), Min(tel.irq_rate, 127),
               Min(tel.free_kb \div 1024, 127), Min(tel.pf_rate, 127)>>
    IN  [xbuf |-> [p \in 0..255 |-> IF p < len /\ p < 4 THEN f[p + 1] ELSE 0],
         x_len |-> len]

\* acc of output oi: the row of W times x
RECURSIVE DotRow(_, _, _, _, _)
DotRow(payload, w_row, xbuf, p, in_dim) ==
    IF p >= in_dim THEN 0
    ELSE PayloadI8(payload, w_row + p) * xbuf[p] + DotRow(payload, w_row, xbuf, p + 1, in_dim)

\* i32::saturating_add
i32_saturating_add(a, b) ==
    IF a + b >= U32 \div 2 THEN U32 \div 2 - 1
    ELSE IF a + b < -(U32 \div 2) THEN -(U32 \div 2)
    ELSE a + b

\* ReLU, >> REQUANT_SHIFT, clamp at 127
Requant(v) == Min((IF v < 0 THEN 0 ELSE v) \div (2 ^ REQUANT_SHIFT), 127)

\* the layer loop from layer l on: xbuf and x_len afterwards
RECURSIVE Layers(_, _, _, _)
Layers(blob, l, xbuf, x_len) ==
    LET hdr == blob.hdr
        d == layer_dims(hdr, l)
    IN  IF l >= hdr.n_layers \/ d = None THEN [xbuf |-> xbuf, x_len |-> x_len]
        ELSE
          LET dims == CHOOSE x \in d : TRUE
              w == layer_ptr_int8(hdr, l)
              b == bias_ptr_i32(hdr, l)
          IN  IF dims.in_dim > x_len \/ dims.out_dim > 256 \/ dims.in_dim = 0
                   \/ dims.out_dim = 0 \/ w = None
              THEN [xbuf |-> xbuf, x_len |-> x_len]
              ELSE
                LET w_ptr == CHOOSE x \in w : TRUE
                    acc(oi) ==
                        LET dot == DotRow(blob.payload, w_ptr + oi * dims.in_dim, xbuf, 0,
                                          dims.in_dim)
                        IN  IF b = None THEN dot
                            ELSE i32_saturating_add(dot,
                                    as_i32(PayloadI32(blob.payload,
                                                      (CHOOSE x \in b : TRUE) + 4 * oi)))
                    out == [p \in 0..255 |->
                               IF p < dims.out_dim THEN Requant(acc(p)) ELSE xbuf[p]]
                IN  Layers(blob, l + 1, out, dims.out_dim)

\* the heuristic score before the clamp to [-127, 127], in exact arithmetic
heuristic(tel) ==
    as_i32(tel.runq) + TruncDiv(as_i32(tel.irq_rate), 2) - as_i32(tel.pf_rate)
        - TruncDiv(as_i32(tel.free_kb \div 1024), 8)

\* a fallback score that is not clamped
clamp_score_None(s) == s

\* l.188-189: the fallback score is clamped to [-127, 127]
clamp_score(s) == IF s < -127 THEN -127 ELSE IF s > 127 THEN 127 ELSE s

\* the score of infer_and_propose (l.121-191)
score_of(blob, tel) ==
    IF has_weights(blob.hdr, blob.len)
    THEN LET in == InputVector(blob.hdr, tel)
             x == IF blob.hdr.dtype = 0 THEN Layers(blob, 0, in.xbuf, in.x_len) ELSE in
         IN  IF x.x_len > 0 THEN x.xbuf[0] ELSE 0
    ELSE clamp_score(as_i32(heuristic(tel)))

\* a map from score to quantum without the clamp
quantum_of_Unclamped(score) == QUANTUM_BASE_US + score * QUANTUM_SCALE

\* l.198-200: the quantum of a score
quantum_of(score) ==
    LET quantum == QUANTUM_BASE_US + score * QUANTUM_SCALE
    IN  IF quantum < 100 THEN 100 ELSE IF quantum > 50000 THEN 50000 ELSE quantum

\* infer_and_propose (l.192-202): the Action returned
infer_and_propose(blob, tel) ==
    IF tel.free_kb < MEM_LOW_KB \/ tel.pf_rate > PF_RATE_THRESH
    THEN [kind |-> TrimCache, flags |-> REQUIRES_SNAPSHOT, param1 |-> TRIM_BYTES]
    ELSE [kind |-> SetQuantum, flags |-> REQUIRES_SNAPSHOT,
          param1 |-> quantum_of(score_of(blob, tel))]

NoStep == [n |-> 0, ran |-> FALSE, now |-> << >>, prev_ticks |-> 0, prev_pf |-> 0,
           tel |-> None, score |-> None, submitted |-> << >>, panicked |-> FALSE]

\* the statics of ai_link.rs and ai_agent.rs as declared
IdleAgent == agent = [blob |-> NoBlob, AGENT_STATE |-> None, last |-> NoStep]

\* a loader has set AI_MODEL_ADDR and AI_MODEL_LEN, or has not
AgentReady ==
    \E blob \in Blobs : agent = [blob |-> blob, AGENT_STATE |-> None, last |-> NoStep]

\* ai_agent::step(): ensure_init, gather_telemetry, infer_and_propose and the
\* call of ai_propose_action, whose argument is recorded
agent_step(now) ==
    /\ agent.last.n < MaxSteps
    /\ ~agent.last.panicked
    /\ agent.AGENT_STATE # None =>
          LET st == CHOOSE x \in agent.AGENT_STATE : TRUE
          IN  now.ticks >= st.prev_ticks /\ now.pf >= st.prev_pf
    /\ LET model == load_model(agent.blob)
           init == IF agent.AGENT_STATE # None THEN agent.AGENT_STATE
                   ELSE IF model = None THEN None
                   ELSE Some([hdr |-> CHOOSE h \in model : TRUE,
                              prev_ticks |-> now.ticks, prev_pf |-> now.pf])
       IN  IF init = None
           THEN agent' = [agent EXCEPT !.last = [NoStep EXCEPT !.n = agent.last.n + 1,
                                                              !.ran = TRUE, !.now = now]]
           ELSE
             LET st == CHOOSE x \in init : TRUE
                 tel == gather_telemetry(st.prev_ticks, st.prev_pf, now)
                 blob == [agent.blob EXCEPT !.hdr = st.hdr]
                 weights == has_weights(st.hdr, agent.blob.len)
                 panics == ~weights /\ ~fits_i32(heuristic(tel)) /\ overflow_checks
                 action == infer_and_propose(blob, tel)
                 confirm == BitAnd(action.flags, NEEDS_MANUAL_CONFIRM, 8) # 0
             IN  agent' = [agent EXCEPT
                    !.AGENT_STATE = Some([st EXCEPT !.prev_ticks = now.ticks,
                                                    !.prev_pf = now.pf]),
                    !.last = [n |-> agent.last.n + 1, ran |-> TRUE, now |-> now,
                              prev_ticks |-> st.prev_ticks, prev_pf |-> st.prev_pf,
                              tel |-> Some(tel),
                              score |-> IF panics THEN None ELSE Some(score_of(blob, tel)),
                              submitted |-> IF panics \/ confirm THEN << >> ELSE <<action>>,
                              panicked |-> panics]]
    /\ UNCHANGED <<kernelVars, hid_parse, layout, kbd, command_ring, consumer, task_ctx, boot>>

----------------------------------------------------------------------------
(* keyboard.rs: set-1 scancodes and the shutdown combos *)

\* scancodes handled in one run
MaxKeys == 4

\* the bytes read from port 0x60: the extended prefix 0xE0, Ctrl, Shift, X, C
\* and A pressed and released, Backspace, Tab, Enter, Escape and CapsLock
Scancodes == {224, 29, 157, 42, 170, 45, 173, 46, 174, 30, 158, 14, 15, 28, 1, 58}

\* scancode & 0x80 != 0, scancode & 0x7F
is_release(scancode) == (scancode \div 128) % 2 = 1
key_code(scancode) == scancode % 128

\* MAP_NORMAL.get(code), MAP_SHIFT.get(code) for the codes of Scancodes that
\* reach the default arm: the table has 0x3A entries
MAP_NORMAL(c) == IF c = 30 THEN Some("a") ELSE None
MAP_SHIFT(c) == IF c = 30 THEN Some("A") ELSE None

\* a modifier that is never released
held_after_Sticky(scancode) == TRUE

\* the value stored into CTRL_HELD or SHIFT_HELD: !is_release
held_after(scancode) == ~is_release(scancode)

\* handle_scancode: the flags after the call, what it wrote to the screen and
\* what it returned
handle_scancode(k, scancode) ==
    LET c == key_code(scancode)
        press == ~is_release(scancode)
        same == [CTRL_HELD |-> k.CTRL_HELD, SHIFT_HELD |-> k.SHIFT_HELD,
                 vga |-> << >>, ret |-> None]
    IN  IF scancode = 224 THEN same
        ELSE IF c = 42 \/ c = 54 THEN [same EXCEPT !.SHIFT_HELD = held_after(scancode)]
        ELSE IF c = 29 THEN [same EXCEPT !.CTRL_HELD = held_after(scancode)]
        ELSE IF c = 45
             THEN [same EXCEPT !.ret = IF press /\ k.CTRL_HELD THEN Some("Ctrl+X") ELSE None]
        ELSE IF c = 46
             THEN [same EXCEPT !.ret = IF press /\ k.CTRL_HELD THEN Some("Ctrl+C") ELSE None]
        ELSE IF c = 14 THEN [same EXCEPT !.vga = IF press THEN <<"backspace">> ELSE << >>]
        ELSE IF c = 15 THEN [same EXCEPT !.vga = IF press THEN <<"    ">> ELSE << >>]
        ELSE IF c = 28 THEN [same EXCEPT !.vga = IF press THEN <<"\n">> ELSE << >>]
        ELSE LET ch == IF k.SHIFT_HELD THEN MAP_SHIFT(c) ELSE MAP_NORMAL(c)
             IN  [same EXCEPT !.vga = IF press /\ ch # None
                                      THEN <<CHOOSE x \in ch : TRUE>> ELSE << >>]

\* the statics as initialised, nothing handled yet
IdleKbd ==
    kbd = [CTRL_HELD |-> FALSE, SHIFT_HELD |-> FALSE, n |-> 0, scancode |-> 0,
           vga |-> << >>, ret |-> None, last_ctrl |-> 0, ctrl_before |-> 0,
           exited |-> FALSE]

\* the keyboard interrupt: reads the scancode, handles it, and shuts the
\* machine down on a combo. last_ctrl is the last Ctrl scancode handled (0:
\* none yet), ctrl_before its value when the call began
keyboard(scancode) ==
    /\ ~kbd.exited
    /\ kbd.n < MaxKeys
    /\ LET r == handle_scancode(kbd, scancode)
       IN  kbd' = [CTRL_HELD |-> r.CTRL_HELD, SHIFT_HELD |-> r.SHIFT_HELD,
                   n |-> kbd.n + 1, scancode |-> scancode, vga |-> r.vga,
                   ret |-> r.ret,
                   last_ctrl |-> IF key_code(scancode) = 29
                                 THEN scancode ELSE kbd.last_ctrl,
                   ctrl_before |-> kbd.last_ctrl,
                   exited |-> r.ret # None]
    /\ UNCHANGED <<kernelVars, hid_parse, layout, agent, command_ring, consumer, task_ctx, boot>>

----------------------------------------------------------------------------
(* xhci.rs: TRBs and rings *)

TRB_TYPE_NORMAL == 1
TRB_TYPE_LINK == 6
TRB_TYPE_ENABLE_SLOT == 9
TRB_TYPE_NO_OP_COMMAND == 23
TRB_TYPE_CONFIGURE_ENDPOINT == 12
TRB_TYPE_ADDRESS_DEVICE == 11
TRB_TYPE_SETUP_STAGE == 2
TRB_TYPE_DATA_STAGE == 3
TRB_TYPE_STATUS_STAGE == 4
TRB_TYPE_TRANSFER_EVENT == 32
TRB_TYPE_COMMAND_COMPLETION == 33
TRB_TYPE_PORT_STATUS_CHANGE == 34
\* completion codes: Success, and USB Transaction Error as the failure explored
CC_SUCCESS == 1
CC_USB_TRANSACTION_ERROR == 4

\* a TRB: parameter, status, and the control word split into its fields
\* (type = bits 10..15, ioc = bit 5, tc = bit 1, cycle = bit 0)
\* aux = bits 16..23 (slot id, endpoint id or direction), 0 unless set with TrbAux
Trb(type, parameter, status, ioc, tc, cycle) ==
    [type |-> type, parameter |-> parameter, status |-> status,
     ioc |-> ioc, tc |-> tc, cycle |-> cycle, aux |-> 0]

TrbAux(trb, aux) == [trb EXCEPT !.aux = aux]

\* Trb::default()
TrbDefault == Trb(0, 0, 0, FALSE, FALSE, 0)

zero_trbs(len) == [i \in 1..len |-> TrbDefault]

\* the last slot becomes a Link TRB back to the ring base, cycle bit set
init_link_trb(trbs, base_phys, toggle) ==
    [trbs EXCEPT ![Len(trbs)] =
        [@ EXCEPT !.parameter = base_phys, !.type = TRB_TYPE_LINK,
                  !.ioc = FALSE, !.tc = toggle, !.cycle = 1]]

\* a ring as its creator leaves it
FreshRing(len) == init_link_trb(zero_trbs(len), 0, TRUE)

CycleBit(c) == IF c THEN 1 ELSE 0

----------------------------------------------------------------------------
(* xhci.rs: a CommandRing, and the consumers of the producer rings, at rest *)

\* CommandRing::new over a buffer prepared like the driver's command ring
\* (zeroed, Link TRB last); log records each enqueue_slot call
IdleCommandRing ==
    command_ring = [trbs |-> FreshRing(RingLen), enqueue |-> 0,
                    cycle_state |-> TRUE, log |-> << >>]

\* a consumer starts at slot 0 with cycle state 1
IdleConsumer ==
    consumer = [r \in {"cmd", "ep0", "intr"} |->
                   [dequeue |-> 0, ccs |-> 1, seen |-> << >>, crossings |-> 0]]

IdleRings == IdleCommandRing /\ IdleConsumer

----------------------------------------------------------------------------
(* main.rs kernel_main: the order of the initialisation, with the run_once
   calls between its phases *)

\* iterations of kernel_main's loop explored
MaxLoops == 1

\* a boot that declares the system ready before it enables interrupts
BootOrder_ReadyFirst ==
    <<"early", "idt", "syscall", "pic", "pmm_usb", "ready", "interrupts", "main">>

\* l.57-120: the early agent scheduling, idt::init, syscall::init, pic::init,
\* pmm::init with log_usb_controllers, interrupts::enable, set_system_ready,
\* and the loop
BootOrder ==
    <<"early", "idt", "syscall", "pic", "pmm_usb", "interrupts", "ready", "main">>

\* the phases followed by a task::run_once call (l.77, 87, 92, 106, 112, 137)
RunOncePhases == {"early", "idt", "syscall", "pic", "pmm_usb", "main"}

\* what the agent's step proposes (ai_agent.rs l.192-202): the quantum of a
\* score, here of the two extreme scores, or a trim
BootActions ==
    {[kind |-> SetQuantum, param1 |-> U64(0, quantum_of(-127))],
     [kind |-> SetQuantum, param1 |-> U64(0, quantum_of(127))],
     [kind |-> TrimCache, param1 |-> U64(0, TRIM_BYTES)]}

\* kernel_main has not been entered
IdleBoot ==
    boot = [i |-> 0, interrupts |-> FALSE, model |-> FALSE, mark |-> 0, loops |-> 0]

\* kernel_main is in its first phase: the model was found in the initrd and the
\* agent's step registered, or not
BootStart ==
    \E model \in BOOLEAN :
        boot = [i |-> 1, interrupts |-> FALSE, model |-> model, mark |-> 0, loops |-> 0]

Phase == BootOrder[boot.i]

\* kernel_main goes on to its next phase, or to the next iteration of its loop;
\* set_system_ready has returned before the phase after it begins
boot_next ==
    /\ ~halted
    /\ ctx[1].pc = "idle"
    /\ Phase \in RunOncePhases /\ boot.model => Len(assigned) > boot.mark
    /\ Phase = "ready" => SYSTEM_READY
    /\ IF Phase = "main"
       THEN /\ boot.loops < MaxLoops
            /\ boot' = [boot EXCEPT !.loops = @ + 1, !.mark = Len(assigned)]
       ELSE boot' = [boot EXCEPT !.i = @ + 1, !.mark = Len(assigned),
                                 !.interrupts = @ \/ BootOrder[boot.i + 1] = "interrupts"]
    /\ UNCHANGED <<kernelVars, hid_parse, layout, agent, kbd, command_ring, consumer,
                   task_ctx>>

\* task::run_once calls the agent's step, which calls ai_propose_action
boot_step_proposes(a) ==
    /\ ~halted
    /\ Phase \in RunOncePhases /\ boot.model
    /\ ctx[1].pc = "idle"
    /\ Len(assigned) = boot.mark
    /\ ctx' = [ctx EXCEPT ![1] = [IdleCtx EXCEPT !.pc = "seq_load", !.a = a,
                                     !.entry_ready = SYSTEM_READY,
                                     !.entry_q = QUANTUM_US]]
    /\ UNCHANGED <<SYSTEM_READY, QUANTUM_US, SEQ, APPLY_LOCK, TIMER_TICKS, PAGE_FAULTS,
                   halted, journal, assigned>>
    /\ UNCHANGED nonTxnVars

\* the steps of the call the agent made
boot_call_runs ==
    \/ SeqLoad(1) \/ SeqStore(1) \/ Gate(1) \/ Lock(1) \/ Snapshot(1) \/ Intent(1)
    \/ Execute(1) \/ SelfTestStart(1) \/ SelfTestSpin(1) \/ Finish(1) \/ Return(1)

NextBoot ==
    \/ boot_next
    \/ \E a \in BootActions : boot_step_proposes(a)
    \/ boot_call_runs
    \/ Phase = "ready" /\ set_system_ready
    \/ boot.interrupts /\ TimerTick

----------------------------------------------------------------------------
(* The functions that only compute have not been called *)

IdleCalc == IdleParse /\ IdleLayout /\ IdleAgent /\ IdleKbd /\ IdleRings /\ IdleTaskCtx /\ IdleBoot

----------------------------------------------------------------------------
(* xhci.rs: ring producers *)
\* a producer that writes the slot but does not advance
RingPut_NoAdvance(trbs, enqueue, cycle, trb) ==
    LET usable == SaturatingSub(Len(trbs), 1)
    IN  IF usable = 0
        THEN [trbs |-> trbs, enqueue |-> enqueue, cycle |-> cycle]
        ELSE [trbs |-> [trbs EXCEPT ![(enqueue % usable) + 1] = trb],
              enqueue |-> enqueue, cycle |-> cycle]

\* the producer step shared by every enqueue: write at enqueue % usable,
\* advance modulo usable, toggle the cycle state when the index returns to 0
RingPut(trbs, enqueue, cycle, trb) ==
    LET usable == SaturatingSub(Len(trbs), 1)
    IN  IF usable = 0
        THEN [trbs |-> trbs, enqueue |-> enqueue, cycle |-> cycle]
        ELSE LET index == enqueue % usable
                 next  == (enqueue + 1) % usable
             IN  [trbs |-> [trbs EXCEPT ![index + 1] = trb],
                  enqueue |-> next,
                  cycle |-> IF next = 0 THEN ~cycle ELSE cycle]

\* slot and endpoint of the enumerated keyboard
Slots == {1, 2}
EpIds == {3, 5}
\* the interrupt endpoint's max packet size, and the buffer pmm::alloc_aligned returns
HidMaxp == 8
HidBufPhys == 4096

\* physical addresses: the n-th pmm::alloc_aligned call of the driver returns
\* block n; init_controller takes four blocks in this order
CmdRingBlock == 1
DcbaaBlock == 2
EventRingBlock == 3
ErstBlock == 4
InitBlocks == 4

\* the ControllerState that CONTROLLER_STATE.call_once builds; `present` tells
\* whether the Once has been set. `base` is the number of blocks allocated before
\* this init_controller call.
ControllerCreated(base) ==
    [present |-> TRUE,
     command_ring_phys |-> base + CmdRingBlock, dcbaa_phys |-> base + DcbaaBlock,
     event_ring_phys |-> base + EventRingBlock, erst_phys |-> base + ErstBlock,
     command_ring_enqueue |-> 0, command_ring_cycle |-> TRUE,
     event_ring_dequeue |-> 0, event_ring_cycle |-> TRUE,
     last_completion_code |-> None, last_completed_slot |-> None,
     last_transfer_code |-> None, last_transfer_len |-> None,
     last_transfer_ep |-> None, last_transfer_slot |-> None,
     active_slot |-> None,
     ep0_ring_len |-> 0, ep0_enqueue |-> 0, ep0_cycle |-> TRUE,
     intr_ep_id |-> 0, intr_ring_len |-> 0,
     intr_enqueue |-> 0, intr_cycle |-> TRUE,
     hid_buf_phys |-> 0, hid_buf_len |-> 0]

\* CONTROLLER_STATE before init_controller has set it
ControllerAbsent == [ControllerCreated(0) EXCEPT !.present = FALSE]

\* ControllerState once init_controller, address_device and
\* configure_interrupt_in_endpoint have succeeded for (slot, ep_id)
ControllerConfigured(slot, ep_id) ==
    [ControllerCreated(0) EXCEPT
        !.active_slot = Some(slot),
        !.ep0_ring_len = RingLen,
        !.intr_ep_id = ep_id, !.intr_ring_len = RingLen]

\* the controller's side: event ring producer, interrupt ring consumer
HwInit ==
    [ev_enqueue |-> 0, ev_cycle |-> TRUE, events |-> 0,
     intr_dequeue |-> 0, intr_cycle |-> TRUE, intr_doorbell |-> FALSE,
     \* USBCMD.RUN_STOP, USBCMD.HCRST, USBSTS.HCH
     run_stop |-> TRUE, hcrst |-> FALSE, hch |-> FALSE,
     \* CRCR, DCBAAP, ERSTBA, the segment named by the ERST entry, the ERDP segment
     crcr |-> CmdRingBlock, dcbaap |-> DcbaaBlock, erstba |-> ErstBlock,
     ev_segment |-> EventRingBlock, erdp_segment |-> EventRingBlock,
     \* command ring consumer
     cmd_dequeue |-> 0, cmd_cycle |-> TRUE, cmd_doorbell |-> FALSE,
     \* default control endpoint: enabled by Address Device, halted by an error
     ep0_enabled |-> FALSE, ep0_dequeue |-> 0, ep0_cycle |-> TRUE,
     ep0_doorbell |-> FALSE, ep0_halted |-> FALSE,
     \* PORTSC of the first port: CCS (bit 0), PED (bit 1), PR (bit 4)
     port |-> [ccs |-> TRUE, ped |-> TRUE, pr |-> FALSE],
     \* history: a command or control transfer of the enumeration was reported
     \* with a completion code other than Success
     failed |-> FALSE]

\* the driver context: pc = position; caller = who called poll_events; step = the
\* operation whose completion is awaited; spins = iterations used by the running
\* wait; allocs = blocks taken from pmm; inits = init_controller calls made;
\* result, timed_out = outcome of the last init_controller call; entry = the
\* singleton, the registers and the block count when that call was entered
DrvIdle ==
    [pc |-> "main", processed |-> FALSE, ret |-> FALSE,
     caller |-> "main", step |-> "none", spins |-> 0,
     allocs |-> InitBlocks, inits |-> 0, result |-> "none", timed_out |-> FALSE,
     entry |-> << >>,
     \* enumeration: result of ensure_first_port_enabled, slot returned by
     \* enable_slot, the step whose failure ended the enumeration
     port_ok |-> FALSE, slot |-> 0, failed_at |-> "none",
     \* what parse_hid_keyboard_endpoint found
     ep_id |-> 0,
     \* history: the serial of the last event handed to handle_event, and its
     \* value when the running poll_events call began
     last_event |-> 0, entry_event |-> 0]

InitXhci ==
    /\ cs = ControllerConfigured(1, 3)
    /\ rings = [cmd |-> FreshRing(RingLen), ep0 |-> FreshRing(RingLen),
                intr |-> FreshRing(RingLen)]
    /\ event_ring = zero_trbs(EventRingLen)
    /\ CONTROLLER_LOCK = "free"
    /\ doorbells = << >>
    /\ erdp = 0
    /\ drv = DrvIdle
    /\ enq_log = [cmd |-> << >>, ep0 |-> << >>, intr |-> << >>]
    /\ hw = HwInit

\* history entry: the TRB as written, the producer cycle state and the enqueue
\* index at that moment
Logged(trb, cycle, index) == [trb |-> trb, cycle |-> CycleBit(cycle), index |-> index]

CmdTypes == {TRB_TYPE_NO_OP_COMMAND, TRB_TYPE_ENABLE_SLOT}

\* enqueue_command_trb(trb_type, parameter, status): lock, write, advance, unlock
enqueue_command_trb(trb_type, parameter, status) ==
    /\ drv.pc = "main" /\ CONTROLLER_LOCK = "free"
    /\ Len(enq_log.cmd) < MaxEnq
    /\ LET trb == Trb(trb_type, parameter, status, TRUE, FALSE,
                      CycleBit(cs.command_ring_cycle))
           r == RingPut(rings.cmd, cs.command_ring_enqueue, cs.command_ring_cycle, trb)
       IN  /\ rings' = [rings EXCEPT !.cmd = r.trbs]
           /\ cs' = [cs EXCEPT !.command_ring_enqueue = r.enqueue,
                               !.command_ring_cycle = r.cycle]
           /\ enq_log' = [enq_log EXCEPT !.cmd = Append(@, Logged(trb, cs.command_ring_cycle, cs.command_ring_enqueue))]
    /\ UNCHANGED <<event_ring, CONTROLLER_LOCK, doorbells, erdp, drv, hw>>
    /\ UNCHANGED nonXhciVars

\* a transfer TRB built by the caller with ep0_cycle_bit(), then ep0_enqueue_trb(trb)
ep0_enqueue_trb(type, parameter) ==
    /\ drv.pc = "main" /\ CONTROLLER_LOCK = "free"
    /\ Len(enq_log.ep0) < MaxEnq
    /\ cs.ep0_ring_len # 0
    /\ LET trb == Trb(type, parameter, 0, TRUE, FALSE, CycleBit(cs.ep0_cycle))
           r == RingPut(rings.ep0, cs.ep0_enqueue, cs.ep0_cycle, trb)
       IN  /\ rings' = [rings EXCEPT !.ep0 = r.trbs]
           /\ cs' = [cs EXCEPT !.ep0_enqueue = r.enqueue, !.ep0_cycle = r.cycle]
           /\ enq_log' = [enq_log EXCEPT !.ep0 = Append(@, Logged(trb, cs.ep0_cycle, cs.ep0_enqueue))]
    /\ UNCHANGED <<event_ring, CONTROLLER_LOCK, doorbells, erdp, drv, hw>>
    /\ UNCHANGED nonXhciVars

\* a Normal TRB built by the caller with intr_cycle_bit(), then intr_enqueue_trb(trb)
intr_enqueue_trb(parameter) ==
    /\ drv.pc = "main" /\ CONTROLLER_LOCK = "free"
    /\ Len(enq_log.intr) < MaxEnq
    /\ LET trb == Trb(TRB_TYPE_NORMAL, parameter, HidMaxp, TRUE, FALSE,
                      CycleBit(cs.intr_cycle))
           r == RingPut(rings.intr, cs.intr_enqueue, cs.intr_cycle, trb)
       IN  /\ rings' = [rings EXCEPT !.intr = r.trbs]
           /\ cs' = [cs EXCEPT !.intr_enqueue = r.enqueue, !.intr_cycle = r.cycle]
           /\ enq_log' = [enq_log EXCEPT !.intr = Append(@, Logged(trb, cs.intr_cycle, cs.intr_enqueue))]
    /\ UNCHANGED <<event_ring, CONTROLLER_LOCK, doorbells, erdp, drv, hw>>
    /\ UNCHANGED nonXhciVars

\* the k-th enqueue on a ring carries payload k
NextRing ==
    \/ \E t \in CmdTypes : enqueue_command_trb(t, Len(enq_log.cmd) + 1, 0)
    \/ ep0_enqueue_trb(TRB_TYPE_NORMAL, Len(enq_log.ep0) + 1)
    \/ intr_enqueue_trb(Len(enq_log.intr) + 1)

\* CommandRing::enqueue_slot(trb), with a TRB that carries cycle_state()
enqueue_slot(parameter) ==
    /\ Len(command_ring.log) < MaxEnq
    /\ LET len == Len(command_ring.trbs)
           index == command_ring.enqueue % len
           next == (command_ring.enqueue + 1) % len
           trb == Trb(TRB_TYPE_NO_OP_COMMAND, parameter, 0, TRUE, FALSE,
                      CycleBit(command_ring.cycle_state))
       IN  command_ring' =
              [trbs |-> [command_ring.trbs EXCEPT ![index + 1] = trb],
               enqueue |-> next,
               cycle_state |-> IF next = 0 THEN ~command_ring.cycle_state
                               ELSE command_ring.cycle_state,
               log |-> Append(command_ring.log,
                              Logged(trb, command_ring.cycle_state, index))]
    /\ UNCHANGED <<kernelVars, hid_parse, layout, agent, kbd, consumer, task_ctx, boot>>

\* the consumer of ring r takes the TRB at its dequeue index when the TRB's
\* cycle bit equals its cycle state; a Link TRB sends it to slot 0 and, with
\* the toggle bit set, flips its cycle state
ring_consume(r) ==
    /\ LET c == consumer[r]
           trb == rings[r][c.dequeue + 1]
       IN  /\ trb.cycle = c.ccs
           /\ consumer' = [consumer EXCEPT ![r] =
                  IF trb.type = TRB_TYPE_LINK
                  THEN [c EXCEPT !.dequeue = 0,
                                 !.ccs = IF trb.tc THEN 1 - c.ccs ELSE c.ccs,
                                 !.crossings = c.crossings + 1]
                  ELSE [c EXCEPT !.dequeue = c.dequeue + 1,
                                 !.seen = Append(c.seen, trb)]]
    /\ UNCHANGED <<kernelVars, hid_parse, layout, agent, kbd, command_ring, task_ctx, boot>>

\* the consumer of ring r has taken every TRB enqueued so far
KeepsPace(r) == Len(consumer[r].seen) = Len(enq_log[r])

\* producers and consumers side by side; a producer waits for its consumer
NextRingWrap ==
    \/ KeepsPace("cmd") /\ enqueue_command_trb(TRB_TYPE_NO_OP_COMMAND, Len(enq_log.cmd) + 1, 0)
    \/ KeepsPace("ep0") /\ ep0_enqueue_trb(TRB_TYPE_NORMAL, Len(enq_log.ep0) + 1)
    \/ KeepsPace("intr") /\ intr_enqueue_trb(Len(enq_log.intr) + 1)
    \/ enqueue_slot(Len(command_ring.log) + 1)
    \/ \E r \in {"cmd", "ep0", "intr"} : ring_consume(r)

\* the rings as their creators leave them; the transaction engine is idle
InitRing == InitTxn /\ IdlePmm /\ IdleTask /\ IdleCalc /\ InitXhci

SpecRing == InitRing /\ [][NextRing]_vars

SpecRingWrap == InitRing /\ [][NextRingWrap]_vars

----------------------------------------------------------------------------
(* xhci.rs: HID polling and the event dispatcher *)

\* spin::Mutex::lock() returns only when the mutex is free; it is not reentrant
LockReturns(lock) == lock = "free"

\* ring_doorbell(slot_id, target): locks CONTROLLER_STATE, writes the doorbell
\* register, unlocks.  The result is the doorbell log, or the log unchanged with
\* returned = FALSE when the lock() inside never returns.
ring_doorbell(lock, log, slot_id, target) ==
    IF LockReturns(lock)
    THEN [returned |-> TRUE, log |-> Append(log, <<slot_id, target>>)]
    ELSE [returned |-> FALSE, log |-> log]

\* the Normal TRB of HID polling
HidTrb(buf, len, cycle) == Trb(TRB_TYPE_NORMAL, buf, len, TRUE, FALSE, CycleBit(cycle))

\* the state between start_hid_polling's writes and its doorbell call
ControllerArmed(slot, ep_id) ==
    LET c == ControllerConfigured(slot, ep_id)
    IN  [c EXCEPT !.hid_buf_phys = HidBufPhys, !.hid_buf_len = HidMaxp,
                  !.intr_enqueue = 1]

\* The polling phase starts either where configure_interrupt_in_endpoint leaves
\* the driver (EndpointConfigured, start_hid_polling about to be called), or in
\* the Polling state: buffer allocated, first Normal TRB posted, doorbell rung,
\* lock released, main loop running.
InitHid ==
    \E slot \in Slots, ep_id \in EpIds, polling \in BOOLEAN :
        /\ cs = IF polling THEN ControllerArmed(slot, ep_id)
                           ELSE ControllerConfigured(slot, ep_id)
        /\ rings = [cmd |-> FreshRing(RingLen), ep0 |-> FreshRing(RingLen),
                    intr |-> IF polling
                             THEN [FreshRing(RingLen) EXCEPT
                                      ![1] = HidTrb(HidBufPhys, HidMaxp, TRUE)]
                             ELSE FreshRing(RingLen)]
        /\ event_ring = zero_trbs(EventRingLen)
        /\ CONTROLLER_LOCK = "free"
        /\ doorbells = IF polling THEN <<<<slot, ep_id>>>> ELSE << >>
        /\ erdp = 0
        /\ drv = [DrvIdle EXCEPT !.pc = IF polling THEN "main" ELSE "enumerate"]
        /\ enq_log = [cmd |-> << >>, ep0 |-> << >>,
                      intr |-> IF polling
                               THEN <<Logged(HidTrb(HidBufPhys, HidMaxp, TRUE), TRUE, 0)>>
                               ELSE << >>]
        /\ hw = [HwInit EXCEPT !.intr_doorbell = polling]

\* start_hid_polling(slot_id, ep_addr, maxp), called by log_usb_controllers with
\* the slot and endpoint just configured; memory is available.  The guard `st`
\* lives to the end of the function, so the ring_doorbell call runs with the
\* lock held.
start_hid_polling ==
    /\ drv.pc = "enumerate" /\ LockReturns(CONTROLLER_LOCK)
    /\ cs.intr_ring_len # 0
    /\ LET buf == IF cs.hid_buf_phys = 0 THEN HidBufPhys ELSE cs.hid_buf_phys
           len == IF cs.hid_buf_phys = 0 THEN HidMaxp ELSE cs.hid_buf_len
           trb == HidTrb(buf, HidMaxp, cs.intr_cycle)
           r == RingPut(rings.intr, cs.intr_enqueue, cs.intr_cycle, trb)
           db == ring_doorbell("start_hid_polling", doorbells,
                               CHOOSE slot \in cs.active_slot : TRUE, cs.intr_ep_id)
       IN  /\ rings' = [rings EXCEPT !.intr = r.trbs]
           /\ cs' = [cs EXCEPT !.hid_buf_phys = buf, !.hid_buf_len = len,
                               !.intr_enqueue = r.enqueue, !.intr_cycle = r.cycle]
           /\ enq_log' = [enq_log EXCEPT !.intr = Append(@, Logged(trb, cs.intr_cycle, cs.intr_enqueue))]
           /\ doorbells' = db.log
           /\ hw' = [hw EXCEPT !.intr_doorbell = @ \/ db.returned]
           /\ IF db.returned
              THEN /\ CONTROLLER_LOCK' = "free"
                   /\ drv' = [drv EXCEPT !.pc = "main", !.ret = TRUE]
              ELSE /\ CONTROLLER_LOCK' = "start_hid_polling"
                   /\ drv' = [drv EXCEPT !.pc = "spin_in_start_hid_polling"]
    /\ UNCHANGED <<event_ring, erdp>>
    /\ UNCHANGED nonXhciVars

\* where poll_events is called from, and where each call returns to: the main
\* loop, the wait loops, and log_usb_controllers before and after the enumeration
PollCallSites == {"main", "wait_poll", "enum_begin", "enum_end"}

ReturnTo(caller) ==
    CASE caller = "wait_poll" -> "wait_check"
      [] caller = "enum_begin" -> "enum_port"
      [] caller = "enum_end" -> "returned"
      [] OTHER -> "main"

\* poll_events, entry: take the lock
poll_events_enter ==
    /\ drv.pc \in PollCallSites /\ LockReturns(CONTROLLER_LOCK)
    /\ cs.present
    /\ CONTROLLER_LOCK' = "poll_events"
    /\ drv' = [drv EXCEPT !.pc = "poll_events", !.processed = FALSE,
                          !.caller = drv.pc, !.entry_event = drv.last_event]
    /\ UNCHANGED <<cs, rings, event_ring, doorbells, erdp, enq_log, hw>>
    /\ UNCHANGED nonXhciVars

\* the event at the dequeue index belongs to the consumer
EventPending ==
    event_ring[cs.event_ring_dequeue + 1].cycle = CycleBit(cs.event_ring_cycle)

\* handle_event's re-post condition for a Transfer Event
Repost(state, completion_code, ep_id) ==
    /\ completion_code = CC_SUCCESS
    /\ state.intr_ring_len > 0
    /\ ep_id = state.intr_ep_id
    /\ state.hid_buf_phys # 0

\* ControllerState after handle_event's bookkeeping for `ev`, before any re-post
Recorded(state, ev) ==
    IF ev.type = TRB_TYPE_COMMAND_COMPLETION
    THEN [state EXCEPT !.last_completion_code = Some(ev.code),
                       !.last_completed_slot = Some(ev.slot)]
    ELSE IF ev.type = TRB_TYPE_TRANSFER_EVENT
    THEN [state EXCEPT !.last_transfer_code = Some(ev.code),
                       !.last_transfer_len = Some(ev.len),
                       !.last_transfer_ep = Some(ev.ep_id),
                       !.last_transfer_slot = state.active_slot]
    ELSE state

\* poll_events, one loop iteration: handle_event for the pending event, then
\* advance the dequeue index and write ERDP.  On the re-post path handle_event
\* writes the Normal TRB, advances the producer and calls ring_doorbell while
\* poll_events still holds the lock.
poll_events_dispatch ==
    /\ drv.pc = "poll_events" /\ EventPending
    /\ LET ev == event_ring[cs.event_ring_dequeue + 1]
           st1 == Recorded(cs, ev)
           repost == /\ ev.type = TRB_TYPE_TRANSFER_EVENT
                     /\ Repost(st1, ev.code, ev.ep_id)
                     /\ SaturatingSub(st1.intr_ring_len, 1) > 0
           trb == HidTrb(st1.hid_buf_phys, st1.hid_buf_len, st1.intr_cycle)
           r == RingPut(rings.intr, st1.intr_enqueue, st1.intr_cycle, trb)
           st2 == IF repost
                  THEN [st1 EXCEPT !.intr_enqueue = r.enqueue, !.intr_cycle = r.cycle]
                  ELSE st1
           call == repost /\ st2.active_slot # None
           db == IF call
                 THEN ring_doorbell(CONTROLLER_LOCK, doorbells,
                                    CHOOSE slot \in st2.active_slot : TRUE, st2.intr_ep_id)
                 ELSE [returned |-> TRUE, log |-> doorbells]
           next == (st2.event_ring_dequeue + 1) % EventRingLen
       IN  /\ rings' = IF repost THEN [rings EXCEPT !.intr = r.trbs] ELSE rings
           /\ enq_log' = IF repost
                         THEN [enq_log EXCEPT !.intr = Append(@, Logged(trb, st1.intr_cycle, st1.intr_enqueue))]
                         ELSE enq_log
           /\ doorbells' = db.log
           /\ hw' = [hw EXCEPT !.intr_doorbell = @ \/ (call /\ db.returned),
                               !.erdp_segment = IF db.returned THEN st2.event_ring_phys
                                                ELSE @]
           /\ IF db.returned
              THEN /\ cs' = [st2 EXCEPT !.event_ring_dequeue = next,
                                        !.event_ring_cycle =
                                            IF next = 0 THEN ~@ ELSE @]
                   /\ erdp' = next
                   /\ drv' = [drv EXCEPT !.processed = TRUE,
                                         !.last_event = ev.parameter]
              ELSE /\ cs' = st2
                   /\ erdp' = erdp
                   /\ drv' = [drv EXCEPT !.pc = "spin_in_handle_event",
                                         !.last_event = ev.parameter]
    /\ UNCHANGED <<event_ring, CONTROLLER_LOCK>>
    /\ UNCHANGED nonXhciVars

\* poll_events, exit: no pending event, drop the lock, return `processed`
poll_events_return ==
    /\ drv.pc = "poll_events" /\ ~EventPending
    /\ CONTROLLER_LOCK' = "free"
    /\ drv' = [drv EXCEPT !.pc = ReturnTo(drv.caller),
                          !.ret = drv.processed]
    /\ UNCHANGED <<cs, rings, event_ring, doorbells, erdp, enq_log, hw>>
    /\ UNCHANGED nonXhciVars

\* an event TRB as the controller writes it
Event(type, code, ep_id, slot, len, cycle) ==
    [type |-> type, code |-> code, ep_id |-> ep_id, slot |-> slot, len |-> len,
     parameter |-> 0, status |-> 0, ioc |-> FALSE, tc |-> FALSE, cycle |-> cycle,
     aux |-> 0]

\* the controller's event ring producer: room left, write, advance, toggle at wrap
EventRingHasRoom == (hw.ev_enqueue + 1) % EventRingLen # erdp

\* the event's parameter tells the events of one run apart: the n-th event
\* written carries n
Numbered(ev) == [ev EXCEPT !.parameter = hw.events + 1]

HwWriteEvent(ev) ==
    LET next == (hw.ev_enqueue + 1) % EventRingLen
    IN  /\ event_ring' = [event_ring EXCEPT ![hw.ev_enqueue + 1] = Numbered(ev)]
        /\ hw' = [hw EXCEPT !.ev_enqueue = next,
                            !.ev_cycle = IF next = 0 THEN ~@ ELSE @,
                            !.events = @ + 1]

\* the controller reports a port status change
HwPortStatusChange ==
    /\ hw.events < MaxEvents /\ EventRingHasRoom
    /\ HwWriteEvent(Event(TRB_TYPE_PORT_STATUS_CHANGE, CC_SUCCESS, 0, 0, 0,
                          CycleBit(hw.ev_cycle)))
    /\ UNCHANGED <<cs, rings, CONTROLLER_LOCK, doorbells, erdp, drv, enq_log>>
    /\ UNCHANGED nonXhciVars

\* the controller completes the Normal TRB at its interrupt ring dequeue pointer
\* (after a doorbell, when the TRB's cycle bit matches) and reports the outcome
HwTransferEvent(code) ==
    /\ hw.events < MaxEvents /\ EventRingHasRoom
    /\ hw.intr_doorbell
    /\ rings.intr[hw.intr_dequeue + 1].cycle = CycleBit(hw.intr_cycle)
    /\ rings.intr[hw.intr_dequeue + 1].type = TRB_TYPE_NORMAL
    /\ LET next == hw.intr_dequeue + 1
           ev == Event(TRB_TYPE_TRANSFER_EVENT, code, cs.intr_ep_id,
                       CHOOSE slot \in cs.active_slot : TRUE, 0, CycleBit(hw.ev_cycle))
           nextev == (hw.ev_enqueue + 1) % EventRingLen
       IN  /\ event_ring' = [event_ring EXCEPT ![hw.ev_enqueue + 1] = Numbered(ev)]
           /\ hw' = [hw EXCEPT !.ev_enqueue = nextev,
                               !.ev_cycle = IF nextev = 0 THEN ~@ ELSE @,
                               !.events = @ + 1,
                               !.intr_dequeue = next,
                               !.intr_doorbell = FALSE]
    /\ UNCHANGED <<cs, rings, CONTROLLER_LOCK, doorbells, erdp, drv, enq_log>>
    /\ UNCHANGED nonXhciVars

CompletionCodes == {CC_SUCCESS, CC_USB_TRANSACTION_ERROR}

DriverStep ==
    \/ start_hid_polling
    \/ poll_events_enter
    \/ poll_events_dispatch
    \/ poll_events_return

ControllerStep ==
    \/ HwPortStatusChange
    \/ \E code \in CompletionCodes : HwTransferEvent(code)

NextHid ==
    \/ start_hid_polling
    \/ poll_events_enter
    \/ poll_events_dispatch
    \/ poll_events_return
    \/ HwPortStatusChange
    \/ \E code \in CompletionCodes : HwTransferEvent(code)

InitPolling == InitTxn /\ IdlePmm /\ IdleTask /\ IdleCalc /\ InitHid

SpecHid == InitPolling /\ [][NextHid]_vars

\* the main loop keeps running and the controller keeps working
SpecHidFair == SpecHid /\ WF_vars(DriverStep) /\ WF_vars(ControllerStep)

----------------------------------------------------------------------------
(* xhci.rs: controller bring-up *)

\* the registers init_controller programs, as the controller holds them
Regs(h) ==
    [run_stop |-> h.run_stop, crcr |-> h.crcr, dcbaap |-> h.dcbaap,
     erstba |-> h.erstba, erdp_segment |-> h.erdp_segment]

\* the controller is halted: stopped and reporting HCH
Halted(h) == ~h.run_stop /\ h.hch

\* wait_for(predicate) after `spins` reads that found it false: the next read
\* ends the wait with true, uses up the budget (false), or leaves it spinning
wait_for(predicate, spins) ==
    IF predicate THEN "true"
    ELSE IF spins + 1 >= WaitBudget THEN "false"
    ELSE "spin"

\* return Err(..) from init_controller after a wait expired
InitErr(d) == [d EXCEPT !.pc = "main", !.result = "err", !.timed_out = TRUE, !.spins = 0]

\* init_controller(info), l.427-439: stop the controller if it runs and wait for
\* HCH; otherwise go straight to the reset
init_controller ==
    /\ drv.pc = "main" /\ drv.inits < MaxInits
    /\ LET d == [drv EXCEPT !.inits = @ + 1, !.result = "none", !.timed_out = FALSE,
                            !.spins = 0,
                            !.entry = <<[cs |-> cs, regs |-> Regs(hw),
                                         allocs |-> drv.allocs]>>]
       IN  IF hw.run_stop
           THEN /\ hw' = [hw EXCEPT !.run_stop = FALSE]
                /\ drv' = [d EXCEPT !.pc = "init_halt_wait"]
           ELSE /\ hw' = [hw EXCEPT !.hcrst = TRUE]
                /\ drv' = [d EXCEPT !.pc = "init_reset_wait"]
    /\ UNCHANGED <<cs, rings, event_ring, CONTROLLER_LOCK, doorbells, erdp, enq_log>>
    /\ UNCHANGED nonXhciVars

\* l.436-443: the halt wait, then set HCRST
init_halt_wait ==
    /\ drv.pc = "init_halt_wait"
    /\ LET w == wait_for(hw.hch, drv.spins)
       IN  /\ drv' = IF w = "true" THEN [drv EXCEPT !.pc = "init_reset_wait", !.spins = 0]
                     ELSE IF w = "false" THEN InitErr(drv)
                     ELSE [drv EXCEPT !.spins = @ + 1]
           /\ hw' = IF w = "true" THEN [hw EXCEPT !.hcrst = TRUE] ELSE hw
    /\ UNCHANGED <<cs, rings, event_ring, CONTROLLER_LOCK, doorbells, erdp, enq_log>>
    /\ UNCHANGED nonXhciVars

\* l.444-446: wait for HCRST to clear
init_reset_wait ==
    /\ drv.pc = "init_reset_wait"
    /\ LET w == wait_for(~hw.hcrst, drv.spins)
       IN  drv' = IF w = "true" THEN [drv EXCEPT !.pc = "init_reset_halt_wait", !.spins = 0]
                  ELSE IF w = "false" THEN InitErr(drv)
                  ELSE [drv EXCEPT !.spins = @ + 1]
    /\ UNCHANGED <<cs, rings, event_ring, CONTROLLER_LOCK, doorbells, erdp, enq_log, hw>>
    /\ UNCHANGED nonXhciVars

\* l.447-498: wait for HCH, then allocate and zero the command ring, the DCBAA,
\* the event ring and the ERST, program DCBAAP, CRCR, ERSTBA and ERDP, and set
\* RUN_STOP.  The fresh blocks are the singleton's rings only if call_once is
\* going to store them.
init_reset_halt_wait ==
    /\ drv.pc = "init_reset_halt_wait"
    /\ LET w == wait_for(hw.hch, drv.spins)
           base == drv.allocs
       IN  IF w = "true"
           THEN /\ drv' = [drv EXCEPT !.pc = "init_run_wait", !.spins = 0,
                                      !.allocs = base + InitBlocks]
                /\ hw' = [hw EXCEPT !.dcbaap = base + DcbaaBlock,
                                    !.crcr = base + CmdRingBlock,
                                    !.cmd_dequeue = 0, !.cmd_cycle = TRUE,
                                    !.erstba = base + ErstBlock,
                                    !.ev_segment = base + EventRingBlock,
                                    !.erdp_segment = base + EventRingBlock,
                                    !.run_stop = TRUE]
                /\ erdp' = 0
                /\ rings' = IF cs.present THEN rings
                            ELSE [rings EXCEPT !.cmd = FreshRing(RingLen)]
                /\ event_ring' = IF cs.present THEN event_ring
                                 ELSE zero_trbs(EventRingLen)
           ELSE /\ drv' = IF w = "false" THEN InitErr(drv)
                          ELSE [drv EXCEPT !.spins = @ + 1]
                /\ UNCHANGED <<hw, erdp, rings, event_ring>>
    /\ UNCHANGED <<cs, CONTROLLER_LOCK, doorbells, enq_log>>
    /\ UNCHANGED nonXhciVars

\* l.499-546: wait for HCH to clear, then CONTROLLER_STATE.call_once (which keeps
\* an existing singleton), enqueue_noop_command, ring_doorbell(0, 0)
init_run_wait ==
    /\ drv.pc = "init_run_wait"
    /\ LET w == wait_for(~hw.hch, drv.spins)
           st == IF cs.present THEN cs ELSE ControllerCreated(drv.allocs - InitBlocks)
           trb == Trb(TRB_TYPE_NO_OP_COMMAND, 0, 0, TRUE, FALSE,
                      CycleBit(st.command_ring_cycle))
           r == RingPut(rings.cmd, st.command_ring_enqueue, st.command_ring_cycle, trb)
           db == ring_doorbell(CONTROLLER_LOCK, doorbells, 0, 0)
       IN  IF w = "true"
           THEN /\ cs' = [st EXCEPT !.command_ring_enqueue = r.enqueue,
                                    !.command_ring_cycle = r.cycle]
                /\ rings' = [rings EXCEPT !.cmd = r.trbs]
                /\ enq_log' = [enq_log EXCEPT !.cmd =
                      Append(@, Logged(trb, st.command_ring_cycle, st.command_ring_enqueue))]
                /\ doorbells' = db.log
                /\ hw' = [hw EXCEPT !.cmd_doorbell = TRUE]
                /\ drv' = [drv EXCEPT !.pc = "wait_poll", !.step = "noop", !.spins = 0]
           ELSE /\ drv' = IF w = "false" THEN InitErr(drv)
                          ELSE [drv EXCEPT !.spins = @ + 1]
                /\ UNCHANGED <<cs, rings, enq_log, doorbells, hw>>
    /\ UNCHANGED <<event_ring, CONTROLLER_LOCK, erdp>>
    /\ UNCHANGED nonXhciVars

\* wait_for_command_completion, after the poll_events of one iteration: take the
\* recorded completion, or count the iteration and give up when the budget is used
CommandWaitOutcome(state, spins) ==
    IF state.last_completion_code # None
    THEN [done |-> TRUE, code |-> state.last_completion_code,
          slot |-> IF state.last_completed_slot # None
                   THEN CHOOSE x \in state.last_completed_slot : TRUE ELSE 0]
    ELSE [done |-> spins + 1 >= PollBudget, code |-> None, slot |-> 0]

\* l.548-558: the No-Op wait of init_controller; a completion and a timeout both
\* end in Ok(())
init_noop_wait ==
    /\ drv.pc = "wait_check" /\ drv.step = "noop"
    /\ LockReturns(CONTROLLER_LOCK)
    /\ LET o == CommandWaitOutcome(cs, drv.spins)
       IN  /\ cs' = [cs EXCEPT !.last_completion_code = None,
                               !.last_completed_slot =
                                   IF o.code # None THEN None ELSE @]
           /\ drv' = IF o.done
                     THEN [drv EXCEPT !.pc = "main", !.step = "none", !.spins = 0,
                                      !.result = "ok", !.timed_out = (o.code = None)]
                     ELSE [drv EXCEPT !.pc = "wait_poll", !.spins = @ + 1]
    /\ UNCHANGED <<rings, event_ring, CONTROLLER_LOCK, doorbells, erdp, enq_log, hw>>
    /\ UNCHANGED nonXhciVars

\* the controller halts once RUN_STOP is clear
HwHalt ==
    /\ ~hw.run_stop /\ ~hw.hch /\ ~hw.hcrst
    /\ hw' = [hw EXCEPT !.hch = TRUE]
    /\ UNCHANGED <<cs, rings, event_ring, CONTROLLER_LOCK, doorbells, erdp, drv, enq_log>>
    /\ UNCHANGED nonXhciVars

\* the controller finishes a reset: HCRST clears, it is halted, its ring pointers
\* are back at their reset values
HwResetDone ==
    /\ hw.hcrst
    /\ hw' = [hw EXCEPT !.hcrst = FALSE, !.hch = TRUE, !.run_stop = FALSE,
                        !.ev_enqueue = 0, !.ev_cycle = TRUE,
                        !.cmd_dequeue = 0, !.cmd_cycle = TRUE, !.cmd_doorbell = FALSE,
                        !.intr_doorbell = FALSE]
    /\ UNCHANGED <<cs, rings, event_ring, CONTROLLER_LOCK, doorbells, erdp, drv, enq_log>>
    /\ UNCHANGED nonXhciVars

\* the controller starts once RUN_STOP is set
HwRun ==
    /\ hw.run_stop /\ hw.hch /\ ~hw.hcrst
    /\ hw' = [hw EXCEPT !.hch = FALSE]
    /\ UNCHANGED <<cs, rings, event_ring, CONTROLLER_LOCK, doorbells, erdp, drv, enq_log>>
    /\ UNCHANGED nonXhciVars

\* the controller reads the ring CRCR names and writes the segment its ERST names
HwSeesDriverRings ==
    cs.present /\ hw.crcr = cs.command_ring_phys /\ hw.ev_segment = cs.event_ring_phys

\* the slot a command completion reports
CompletionSlot(trb, slot) ==
    IF trb.type = TRB_TYPE_ENABLE_SLOT THEN slot
    ELSE IF trb.type = TRB_TYPE_NO_OP_COMMAND THEN 0
    ELSE trb.aux

\* the running controller executes the command at its dequeue pointer and
\* reports the outcome with a Command Completion Event; a successful Address
\* Device enables the default control endpoint at the start of its ring
HwCommandCompletion(code, slot) ==
    /\ EventRingHasRoom
    /\ hw.run_stop /\ ~hw.hch /\ hw.cmd_doorbell
    /\ HwSeesDriverRings
    /\ LET trb == rings.cmd[hw.cmd_dequeue + 1]
           next == hw.cmd_dequeue + 1
           wrap == rings.cmd[next + 1].type = TRB_TYPE_LINK
                   /\ rings.cmd[next + 1].cycle = CycleBit(hw.cmd_cycle)
           ev == Event(TRB_TYPE_COMMAND_COMPLETION, code, 0,
                       CompletionSlot(trb, slot), 0, CycleBit(hw.ev_cycle))
           nextev == (hw.ev_enqueue + 1) % EventRingLen
           addressed == trb.type = TRB_TYPE_ADDRESS_DEVICE /\ code = CC_SUCCESS
       IN  /\ trb.cycle = CycleBit(hw.cmd_cycle)
           /\ trb.type # TRB_TYPE_LINK
           /\ event_ring' = [event_ring EXCEPT ![hw.ev_enqueue + 1] = ev]
           /\ hw' = [hw EXCEPT !.ev_enqueue = nextev,
                               !.ev_cycle = IF nextev = 0 THEN ~@ ELSE @,
                               !.cmd_dequeue = IF wrap THEN 0 ELSE next,
                               !.cmd_cycle = IF wrap /\ rings.cmd[next + 1].tc
                                             THEN ~@ ELSE @,
                               !.ep0_enabled = @ \/ addressed,
                               !.failed = @ \/ (code # CC_SUCCESS
                                                /\ trb.type # TRB_TYPE_NO_OP_COMMAND)]
    /\ UNCHANGED <<cs, rings, CONTROLLER_LOCK, doorbells, erdp, drv, enq_log>>
    /\ UNCHANGED nonXhciVars

\* before the first init_controller: no singleton, controller running or halted
InitBringUp ==
    /\ InitTxn /\ IdlePmm /\ IdleTask /\ IdleCalc
    /\ cs = ControllerAbsent
    /\ rings = [cmd |-> zero_trbs(RingLen), ep0 |-> zero_trbs(RingLen),
                intr |-> zero_trbs(RingLen)]
    /\ event_ring = zero_trbs(EventRingLen)
    /\ CONTROLLER_LOCK = "free"
    /\ doorbells = << >>
    /\ erdp = 0
    /\ drv = [DrvIdle EXCEPT !.allocs = 0]
    /\ enq_log = [cmd |-> << >>, ep0 |-> << >>, intr |-> << >>]
    /\ \E running \in BOOLEAN :
          hw = [HwInit EXCEPT !.run_stop = running, !.hch = ~running,
                              !.crcr = 0, !.dcbaap = 0, !.erstba = 0,
                              !.ev_segment = 0, !.erdp_segment = 0]

NextBringUp ==
    \/ init_controller
    \/ init_halt_wait
    \/ init_reset_wait
    \/ init_reset_halt_wait
    \/ init_run_wait
    \/ init_noop_wait
    \/ poll_events_enter
    \/ poll_events_dispatch
    \/ poll_events_return
    \/ HwHalt
    \/ HwResetDone
    \/ HwRun
    \/ \E code \in CompletionCodes : HwCommandCompletion(code, 0)

SpecBringUp == InitBringUp /\ [][NextBringUp]_vars

----------------------------------------------------------------------------
(* main.rs log_usb_controllers after init_controller returned Ok: enumeration *)

\* the nested ifs of log_usb_controllers, in call order
EnumOrder ==
    <<"enable_slot", "address_device", "get_device_descriptor",
      "get_configuration_descriptor_header", "get_configuration_descriptor",
      "set_configuration", "configure_interrupt_in_endpoint">>

ControlInSteps ==
    {"get_device_descriptor", "get_configuration_descriptor_header",
     "get_configuration_descriptor"}

StepAfter(step) ==
    LET i == CHOOSE k \in 1..Len(EnumOrder) : EnumOrder[k] = step
    IN  EnumOrder[i + 1]

\* a step returned None/false: the else branches only print, then l.283 polls
EnumStop(d) ==
    [d EXCEPT !.pc = "enum_end", !.failed_at = d.step, !.step = "none", !.spins = 0]

\* a step returned Some/true: the next nested call
EnumNext(d) == [d EXCEPT !.pc = "enum_issue", !.step = StepAfter(d.step), !.spins = 0]

\* ensure_first_port_enabled / find_first_connected_port / reset_port up to the
\* first wait: a connected port that is not enabled gets PORTSC.PR set
ensure_first_port_enabled ==
    /\ drv.pc = "enum_port"
    /\ IF hw.port.ccs /\ ~hw.port.ped
       THEN /\ hw' = [hw EXCEPT !.port.pr = TRUE]
            /\ drv' = [drv EXCEPT !.pc = "port_reset_wait", !.spins = 0]
       ELSE /\ hw' = hw
            /\ drv' = [drv EXCEPT !.pc = "enum_issue", !.step = "enable_slot",
                                  !.port_ok = hw.port.ccs /\ hw.port.ped]
    /\ UNCHANGED <<cs, rings, event_ring, CONTROLLER_LOCK, doorbells, erdp, enq_log>>
    /\ UNCHANGED nonXhciVars

\* reset_port, first wait_for: PR clear; its result is dropped
reset_port_wait ==
    /\ drv.pc = "port_reset_wait"
    /\ LET w == wait_for(~hw.port.pr, drv.spins)
       IN  drv' = IF w = "spin" THEN [drv EXCEPT !.spins = @ + 1]
                  ELSE [drv EXCEPT !.pc = "port_enabled_wait", !.spins = 0]
    /\ UNCHANGED <<cs, rings, event_ring, CONTROLLER_LOCK, doorbells, erdp, enq_log, hw>>
    /\ UNCHANGED nonXhciVars

\* reset_port, second wait_for: PED set; its result is reset_port's result, which
\* log_usb_controllers only prints before it calls enable_slot
reset_port_enabled_wait ==
    /\ drv.pc = "port_enabled_wait"
    /\ LET w == wait_for(hw.port.ped, drv.spins)
       IN  drv' = IF w = "spin" THEN [drv EXCEPT !.spins = @ + 1]
                  ELSE [drv EXCEPT !.pc = "enum_issue", !.step = "enable_slot",
                                   !.spins = 0, !.port_ok = (w = "true")]
    /\ UNCHANGED <<cs, rings, event_ring, CONTROLLER_LOCK, doorbells, erdp, enq_log, hw>>
    /\ UNCHANGED nonXhciVars

\* enqueue_command_trb / enqueue_command_trb_slot followed by ring_doorbell(0, 0):
\* the command ring, ControllerState, enqueue history and doorbell log afterwards
CommandIssued(trb_type, parameter, slot_id) ==
    LET trb == TrbAux(Trb(trb_type, parameter, 0, TRUE, FALSE,
                          CycleBit(cs.command_ring_cycle)), slot_id)
        r == RingPut(rings.cmd, cs.command_ring_enqueue, cs.command_ring_cycle, trb)
    IN  [ring |-> r.trbs,
         state |-> [cs EXCEPT !.command_ring_enqueue = r.enqueue,
                              !.command_ring_cycle = r.cycle],
         log |-> Append(enq_log.cmd,
                        Logged(trb, cs.command_ring_cycle, cs.command_ring_enqueue)),
         doorbells |-> ring_doorbell(CONTROLLER_LOCK, doorbells, 0, 0).log]

\* enable_slot, l.778-781: Enable Slot command, doorbell 0
enable_slot ==
    /\ drv.pc = "enum_issue" /\ drv.step = "enable_slot"
    /\ LockReturns(CONTROLLER_LOCK)
    /\ LET c == CommandIssued(TRB_TYPE_ENABLE_SLOT, 0, 0)
       IN  /\ rings' = [rings EXCEPT !.cmd = c.ring]
           /\ cs' = c.state
           /\ enq_log' = [enq_log EXCEPT !.cmd = c.log]
           /\ doorbells' = c.doorbells
    /\ hw' = [hw EXCEPT !.cmd_doorbell = TRUE]
    /\ drv' = [drv EXCEPT !.pc = "wait_poll", !.spins = 0]
    /\ UNCHANGED <<event_ring, CONTROLLER_LOCK, erdp>>
    /\ UNCHANGED nonXhciVars

\* enable_slot, l.781-791: Some(slot) only for completion code 1
enable_slot_wait ==
    /\ drv.pc = "wait_check" /\ drv.step = "enable_slot"
    /\ LockReturns(CONTROLLER_LOCK)
    /\ LET o == CommandWaitOutcome(cs, drv.spins)
       IN  /\ cs' = [cs EXCEPT !.last_completion_code = None,
                               !.last_completed_slot =
                                   IF o.code # None THEN None ELSE @]
           /\ drv' = IF ~o.done THEN [drv EXCEPT !.pc = "wait_poll", !.spins = @ + 1]
                     ELSE IF o.code = Some(CC_SUCCESS)
                     THEN [EnumNext(drv) EXCEPT !.slot = o.slot]
                     ELSE EnumStop(drv)
    /\ UNCHANGED <<rings, event_ring, CONTROLLER_LOCK, doorbells, erdp, enq_log, hw>>
    /\ UNCHANGED nonXhciVars

\* address_device, l.794-897: device context, EP0 ring (zeroed, Link TRB) and
\* input context are allocated, then the Address Device command and doorbell 0
address_device ==
    /\ drv.pc = "enum_issue" /\ drv.step = "address_device"
    /\ LockReturns(CONTROLLER_LOCK)
    /\ LET c == CommandIssued(TRB_TYPE_ADDRESS_DEVICE, drv.allocs + 3, drv.slot)
       IN  /\ rings' = [rings EXCEPT !.cmd = c.ring, !.ep0 = FreshRing(Ep0Trbs)]
           /\ cs' = c.state
           /\ enq_log' = [enq_log EXCEPT !.cmd = c.log]
           /\ doorbells' = c.doorbells
    /\ hw' = [hw EXCEPT !.cmd_doorbell = TRUE]
    /\ drv' = [drv EXCEPT !.pc = "wait_poll", !.spins = 0, !.allocs = @ + 3]
    /\ UNCHANGED <<event_ring, CONTROLLER_LOCK, erdp>>
    /\ UNCHANGED nonXhciVars

\* address_device, l.898-917: true only for code 1 and the same slot; then the
\* EP0 ring is recorded in ControllerState
address_device_wait ==
    /\ drv.pc = "wait_check" /\ drv.step = "address_device"
    /\ LockReturns(CONTROLLER_LOCK)
    /\ LET o == CommandWaitOutcome(cs, drv.spins)
           taken == [cs EXCEPT !.last_completion_code = None,
                               !.last_completed_slot =
                                   IF o.code # None THEN None ELSE @]
           ok == o.code = Some(CC_SUCCESS) /\ o.slot = drv.slot
       IN  /\ cs' = IF o.done /\ ok
                    THEN [taken EXCEPT !.active_slot = Some(drv.slot),
                                       !.ep0_ring_len = Ep0Trbs,
                                       !.ep0_enqueue = 0, !.ep0_cycle = TRUE]
                    ELSE taken
           /\ drv' = IF ~o.done THEN [drv EXCEPT !.pc = "wait_poll", !.spins = @ + 1]
                     ELSE IF ok THEN EnumNext(drv)
                     ELSE EnumStop(drv)
    /\ UNCHANGED <<rings, event_ring, CONTROLLER_LOCK, doorbells, erdp, enq_log, hw>>
    /\ UNCHANGED nonXhciVars

\* ep0_enqueue_trb for each TRB of `stages` in turn, every TRB built with the
\* ep0_cycle_bit() read just before its enqueue
RECURSIVE Ep0Put(_, _, _, _)
Ep0Put(state, ring, log, stages) ==
    IF stages = << >> THEN [state |-> state, ring |-> ring, log |-> log]
    ELSE LET trb == [Head(stages) EXCEPT !.cycle = CycleBit(state.ep0_cycle)]
             r == RingPut(ring, state.ep0_enqueue, state.ep0_cycle, trb)
         IN  Ep0Put([state EXCEPT !.ep0_enqueue = r.enqueue, !.ep0_cycle = r.cycle],
                    r.trbs,
                    Append(log, Logged(trb, state.ep0_cycle, state.ep0_enqueue)),
                    Tail(stages))

\* a control transfer with the Status stage ahead of the Data stage
ControlInStages_StatusFirst(data_phys, length) ==
    <<Trb(TRB_TYPE_SETUP_STAGE, 0, 8, TRUE, FALSE, 0),
      Trb(TRB_TYPE_STATUS_STAGE, 0, 0, TRUE, FALSE, 0),
      TrbAux(Trb(TRB_TYPE_DATA_STAGE, data_phys, length, TRUE, FALSE, 0), 1)>>

\* the TRBs of control_in (Setup, Data IN, Status OUT) and of control_no_data
\* (Setup, Status IN), all with IOC
ControlInStages(data_phys, length) ==
    <<Trb(TRB_TYPE_SETUP_STAGE, 0, 8, TRUE, FALSE, 0),
      TrbAux(Trb(TRB_TYPE_DATA_STAGE, data_phys, length, TRUE, FALSE, 0), 1),
      Trb(TRB_TYPE_STATUS_STAGE, 0, 0, TRUE, FALSE, 0)>>

ControlNoDataStages ==
    <<Trb(TRB_TYPE_SETUP_STAGE, 0, 8, TRUE, FALSE, 0),
      TrbAux(Trb(TRB_TYPE_STATUS_STAGE, 0, 0, TRUE, FALSE, 0), 1)>>

\* wLength of the three descriptor reads (18, 9, wTotalLength)
DescriptorLength(step) ==
    CASE step = "get_device_descriptor" -> 18
      [] step = "get_configuration_descriptor_header" -> 9
      [] OTHER -> 34

\* get_device_descriptor / get_configuration_descriptor_header /
\* get_configuration_descriptor: a buffer is allocated, then control_in
\* l.970-985 enqueues the three TRBs and rings the EP0 doorbell
control_in(step) ==
    /\ drv.pc = "enum_issue" /\ drv.step = step
    /\ LockReturns(CONTROLLER_LOCK)
    /\ cs.ep0_ring_len # 0
    /\ LET e == Ep0Put(cs, rings.ep0, enq_log.ep0,
                       ControlInStages(drv.allocs + 1, DescriptorLength(step)))
       IN  /\ rings' = [rings EXCEPT !.ep0 = e.ring]
           /\ cs' = e.state
           /\ enq_log' = [enq_log EXCEPT !.ep0 = e.log]
    /\ doorbells' = ring_doorbell(CONTROLLER_LOCK, doorbells, drv.slot, 1).log
    /\ hw' = [hw EXCEPT !.ep0_doorbell = TRUE]
    /\ drv' = [drv EXCEPT !.pc = "wait_poll", !.spins = 0, !.allocs = @ + 1]
    /\ UNCHANGED <<event_ring, CONTROLLER_LOCK, erdp>>
    /\ UNCHANGED nonXhciVars

\* a wait loop that polls once more than its budget
TransferWaitOutcome_ExtraPoll(state, spins) ==
    IF state.last_transfer_code # None
    THEN [done |-> TRUE, code |-> state.last_transfer_code]
    ELSE [done |-> spins + 1 >= PollBudget + 1, code |-> None]

\* the wait loop of control_in and control_no_data after one poll_events: the
\* first recorded Transfer Event ends the wait
TransferWaitOutcome(state, spins) ==
    IF state.last_transfer_code # None
    THEN [done |-> TRUE, code |-> state.last_transfer_code]
    ELSE [done |-> spins + 1 >= PollBudget, code |-> None]

\* control_in, l.987-1000, and the caller's `if ok`
control_in_wait(step) ==
    /\ drv.pc = "wait_check" /\ drv.step = step
    /\ LockReturns(CONTROLLER_LOCK)
    /\ LET o == TransferWaitOutcome(cs, drv.spins)
       IN  /\ cs' = [cs EXCEPT !.last_transfer_code = None,
                               !.last_transfer_len =
                                   IF o.code # None THEN None ELSE @]
           /\ drv' = IF ~o.done THEN [drv EXCEPT !.pc = "wait_poll", !.spins = @ + 1]
                     ELSE IF o.code = Some(CC_SUCCESS) THEN EnumNext(drv)
                     ELSE EnumStop(drv)
    /\ UNCHANGED <<rings, event_ring, CONTROLLER_LOCK, doorbells, erdp, enq_log, hw>>
    /\ UNCHANGED nonXhciVars

\* set_configuration = control_no_data, l.1010-1021
set_configuration ==
    /\ drv.pc = "enum_issue" /\ drv.step = "set_configuration"
    /\ LockReturns(CONTROLLER_LOCK)
    /\ cs.ep0_ring_len # 0
    /\ LET e == Ep0Put(cs, rings.ep0, enq_log.ep0, ControlNoDataStages)
       IN  /\ rings' = [rings EXCEPT !.ep0 = e.ring]
           /\ cs' = e.state
           /\ enq_log' = [enq_log EXCEPT !.ep0 = e.log]
    /\ doorbells' = ring_doorbell(CONTROLLER_LOCK, doorbells, drv.slot, 1).log
    /\ hw' = [hw EXCEPT !.ep0_doorbell = TRUE]
    /\ drv' = [drv EXCEPT !.pc = "wait_poll", !.spins = 0]
    /\ UNCHANGED <<event_ring, CONTROLLER_LOCK, erdp>>
    /\ UNCHANGED nonXhciVars

\* control_no_data, l.1023-1034, then parse_hid_keyboard_endpoint on the
\* descriptor the device returned: an interrupt IN endpoint or none
set_configuration_wait ==
    /\ drv.pc = "wait_check" /\ drv.step = "set_configuration"
    /\ LockReturns(CONTROLLER_LOCK)
    /\ LET o == TransferWaitOutcome(cs, drv.spins)
       IN  /\ cs' = [cs EXCEPT !.last_transfer_code = None]
           /\ \E parsed \in EpIds \cup {0} :
                drv' = IF ~o.done THEN [drv EXCEPT !.pc = "wait_poll", !.spins = @ + 1]
                       ELSE IF o.code # Some(CC_SUCCESS) THEN EnumStop(drv)
                       ELSE IF parsed = 0
                       THEN [EnumStop(drv) EXCEPT
                                !.failed_at = "parse_hid_keyboard_endpoint"]
                       ELSE [EnumNext(drv) EXCEPT !.ep_id = parsed]
    /\ UNCHANGED <<rings, event_ring, CONTROLLER_LOCK, doorbells, erdp, enq_log, hw>>
    /\ UNCHANGED nonXhciVars

\* configure_interrupt_in_endpoint, l.1109-1158: interrupt ring and input
\* context are allocated, then the Configure Endpoint command and doorbell 0
configure_interrupt_in_endpoint ==
    /\ drv.pc = "enum_issue" /\ drv.step = "configure_interrupt_in_endpoint"
    /\ LockReturns(CONTROLLER_LOCK)
    /\ LET c == CommandIssued(TRB_TYPE_CONFIGURE_ENDPOINT, drv.allocs + 2, drv.slot)
       IN  /\ rings' = [rings EXCEPT !.cmd = c.ring, !.intr = FreshRing(RingLen)]
           /\ cs' = c.state
           /\ enq_log' = [enq_log EXCEPT !.cmd = c.log]
           /\ doorbells' = c.doorbells
    /\ hw' = [hw EXCEPT !.cmd_doorbell = TRUE]
    /\ drv' = [drv EXCEPT !.pc = "wait_poll", !.spins = 0, !.allocs = @ + 2]
    /\ UNCHANGED <<event_ring, CONTROLLER_LOCK, erdp>>
    /\ UNCHANGED nonXhciVars

\* configure_interrupt_in_endpoint, l.1159-1174: on success the interrupt ring is
\* recorded and log_usb_controllers goes on to start_hid_polling
configure_interrupt_in_endpoint_wait ==
    /\ drv.pc = "wait_check" /\ drv.step = "configure_interrupt_in_endpoint"
    /\ LockReturns(CONTROLLER_LOCK)
    /\ LET o == CommandWaitOutcome(cs, drv.spins)
           taken == [cs EXCEPT !.last_completion_code = None,
                               !.last_completed_slot =
                                   IF o.code # None THEN None ELSE @]
           ok == o.code = Some(CC_SUCCESS) /\ o.slot = drv.slot
       IN  /\ cs' = IF o.done /\ ok
                    THEN [taken EXCEPT !.intr_ep_id = drv.ep_id,
                                       !.intr_ring_len = RingLen,
                                       !.intr_enqueue = 0, !.intr_cycle = TRUE]
                    ELSE taken
           /\ drv' = IF ~o.done THEN [drv EXCEPT !.pc = "wait_poll", !.spins = @ + 1]
                     ELSE IF ok THEN [drv EXCEPT !.pc = "enumerate", !.step = "none",
                                                 !.spins = 0]
                     ELSE EnumStop(drv)
    /\ UNCHANGED <<rings, event_ring, CONTROLLER_LOCK, doorbells, erdp, enq_log, hw>>
    /\ UNCHANGED nonXhciVars

\* the port finishes its reset, enabled or not
HwPortReset(enabled) ==
    /\ hw.port.pr
    /\ hw' = [hw EXCEPT !.port.pr = FALSE, !.port.ped = enabled]
    /\ UNCHANGED <<cs, rings, event_ring, CONTROLLER_LOCK, doorbells, erdp, drv, enq_log>>
    /\ UNCHANGED nonXhciVars

\* the controller executes the TRB at the EP0 dequeue pointer and, the TRB having
\* IOC set, reports that stage with a Transfer Event; a stage that fails halts
\* the endpoint
HwControlTransferEvent(code) ==
    /\ EventRingHasRoom
    /\ hw.run_stop /\ ~hw.hch /\ HwSeesDriverRings
    /\ hw.ep0_enabled /\ hw.ep0_doorbell /\ ~hw.ep0_halted
    /\ LET trb == rings.ep0[hw.ep0_dequeue + 1]
           slot == doorbells[Len(doorbells)][1]
           ev == Event(TRB_TYPE_TRANSFER_EVENT, code, 1, slot, 0, CycleBit(hw.ev_cycle))
           nextev == (hw.ev_enqueue + 1) % EventRingLen
           next == hw.ep0_dequeue + 1
           wrap == rings.ep0[next + 1].type = TRB_TYPE_LINK
                   /\ rings.ep0[next + 1].cycle = CycleBit(hw.ep0_cycle)
       IN  /\ trb.cycle = CycleBit(hw.ep0_cycle)
           /\ trb.type # TRB_TYPE_LINK
           /\ trb.ioc
           /\ event_ring' = [event_ring EXCEPT ![hw.ev_enqueue + 1] = ev]
           /\ hw' = [hw EXCEPT !.ev_enqueue = nextev,
                               !.ev_cycle = IF nextev = 0 THEN ~@ ELSE @,
                               !.ep0_dequeue = IF wrap THEN 0 ELSE next,
                               !.ep0_cycle = IF wrap /\ rings.ep0[next + 1].tc
                                             THEN ~@ ELSE @,
                               !.ep0_halted = code # CC_SUCCESS,
                               !.failed = @ \/ code # CC_SUCCESS]
    /\ UNCHANGED <<cs, rings, CONTROLLER_LOCK, doorbells, erdp, drv, enq_log>>
    /\ UNCHANGED nonXhciVars

\* the slot the controller hands out for the first Enable Slot
FirstSlot == 1

\* init_controller has returned Ok: the No-Op is on the command ring and the
\* doorbell rung; its completion has been received, or its wait has expired and
\* the completion is still to come.  The first port is empty, connected, or
\* connected and enabled.
InitEnum ==
    /\ InitTxn /\ IdlePmm /\ IdleTask /\ IdleCalc
    /\ \E completed \in BOOLEAN, ccs \in BOOLEAN, ped \in BOOLEAN :
          LET noop == Trb(TRB_TYPE_NO_OP_COMMAND, 0, 0, TRUE, FALSE, 1)
              done == Event(TRB_TYPE_COMMAND_COMPLETION, CC_SUCCESS, 0, 0, 0, 1)
          IN  /\ ped => ccs
              /\ cs = [ControllerCreated(0) EXCEPT
                         !.command_ring_enqueue = 1,
                         !.event_ring_dequeue = IF completed THEN 1 ELSE 0]
              /\ rings = [cmd |-> [FreshRing(RingLen) EXCEPT ![1] = noop],
                          ep0 |-> zero_trbs(RingLen), intr |-> zero_trbs(RingLen)]
              /\ event_ring = IF completed
                              THEN [zero_trbs(EventRingLen) EXCEPT ![1] = done]
                              ELSE zero_trbs(EventRingLen)
              /\ erdp = IF completed THEN 1 ELSE 0
              /\ hw = [HwInit EXCEPT
                         !.cmd_doorbell = TRUE,
                         !.cmd_dequeue = IF completed THEN 1 ELSE 0,
                         !.ev_enqueue = IF completed THEN 1 ELSE 0,
                         !.port = [ccs |-> ccs, ped |-> ped, pr |-> FALSE]]
              /\ drv = [DrvIdle EXCEPT !.pc = "enum_begin", !.inits = 1,
                                       !.result = "ok", !.timed_out = ~completed]
    /\ CONTROLLER_LOCK = "free"
    /\ doorbells = <<<<0, 0>>>>
    /\ enq_log = [cmd |-> <<Logged(Trb(TRB_TYPE_NO_OP_COMMAND, 0, 0, TRUE, FALSE, 1),
                                   TRUE, 0)>>,
                  ep0 |-> << >>, intr |-> << >>]

NextEnum ==
    \/ poll_events_enter
    \/ poll_events_dispatch
    \/ poll_events_return
    \/ ensure_first_port_enabled
    \/ reset_port_wait
    \/ reset_port_enabled_wait
    \/ enable_slot
    \/ enable_slot_wait
    \/ address_device
    \/ address_device_wait
    \/ \E step \in ControlInSteps : control_in(step)
    \/ \E step \in ControlInSteps : control_in_wait(step)
    \/ set_configuration
    \/ set_configuration_wait
    \/ configure_interrupt_in_endpoint
    \/ configure_interrupt_in_endpoint_wait
    \/ start_hid_polling
    \/ \E enabled \in BOOLEAN : HwPortReset(enabled)
    \/ \E code \in CompletionCodes : HwCommandCompletion(code, FirstSlot)
    \/ \E code \in CompletionCodes : HwControlTransferEvent(code)

SpecEnum == InitEnum /\ [][NextEnum]_vars

----------------------------------------------------------------------------
(* Every blocking operation of the kernel: the waits of the xHCI driver during
   the enumeration, and the self-test of a proposal made from the main loop *)

\* the action proposed from the main loop
BlockingKinds == {SetQuantum}
BlockingParams == {U64(0, 2000)}

\* kernel_main without an xHCI controller: log_usb_controllers found none, the
\* main loop runs
InitMainLoop ==
    /\ InitTxn /\ IdlePmm /\ IdleTask /\ IdleCalc
    /\ cs = ControllerAbsent
    /\ rings = [cmd |-> zero_trbs(RingLen), ep0 |-> zero_trbs(RingLen),
                intr |-> zero_trbs(RingLen)]
    /\ event_ring = zero_trbs(EventRingLen)
    /\ CONTROLLER_LOCK = "free"
    /\ doorbells = << >>
    /\ erdp = 0
    /\ drv = [DrvIdle EXCEPT !.allocs = 0]
    /\ enq_log = [cmd |-> << >>, ep0 |-> << >>, intr |-> << >>]
    /\ hw = HwInit

\* kernel_main after log_usb_controllers returned: interrupts are enabled,
\* set_system_ready is called, and the loop runs the agent's step
main_loop_step ==
    /\ drv.pc = "main"
    /\ \/ set_system_ready
       \/ TimerTick
       \/ ProposeStep(1, BlockingKinds, BlockingParams)

InitBlocking == InitEnum \/ InitMainLoop

NextBlocking ==
    \/ NextEnum
    \/ main_loop_step

SpecBlocking == InitBlocking /\ [][NextBlocking]_vars

----------------------------------------------------------------------------
(* The allocator with one caller and with two interleaved callers; the task
   table as kernel_main uses it *)

\* the xHCI driver before log_usb_controllers
IdleXhci ==
    /\ cs = ControllerAbsent
    /\ rings = [cmd |-> zero_trbs(RingLen), ep0 |-> zero_trbs(RingLen),
                intr |-> zero_trbs(RingLen)]
    /\ event_ring = zero_trbs(EventRingLen)
    /\ CONTROLLER_LOCK = "free"
    /\ doorbells = << >>
    /\ erdp = 0
    /\ drv = [DrvIdle EXCEPT !.allocs = 0]
    /\ enq_log = [cmd |-> << >>, ep0 |-> << >>, intr |-> << >>]
    /\ hw = HwInit

InitPmm == InitTxn /\ IdleXhci /\ IdleTask /\ IdleCalc /\ PmmReady

NextPmm == AllocStep(1, Sizes, Aligns)

SpecPmm == InitPmm /\ [][NextPmm]_vars

\* the requests of the interleaved callers: none overflows
ConcSizes == {1, PAGE_SIZE + 1}
ConcAligns == {64, 2 * PAGE_SIZE}

NextPmmConc == \E c \in Callers : AllocStep(c, ConcSizes, ConcAligns)

SpecPmmConc == InitPmm /\ [][NextPmmConc]_vars

InitTask == InitTxn /\ IdleXhci /\ IdlePmm /\ IdleTask /\ IdleCalc

SpecTask == InitTask /\ [][NextTask]_vars

\* the same table with the calls that callbacks make
SpecTaskCalls == InitTask /\ [][NextTaskCalls]_vars

\* kernel_main from its entry on
InitBoot ==
    /\ InitTxn /\ IdleXhci /\ IdlePmm /\ IdleTask
    /\ IdleParse /\ IdleLayout /\ IdleAgent /\ IdleKbd /\ IdleRings /\ IdleTaskCtx
    /\ BootStart

SpecBoot == InitBoot /\ [][NextBoot]_vars

\* the closure kernel_main registers, as often as the table allows
BootFns == {"step"}

NextTaskBoot ==
    \/ \E task \in BootFns : register(task)
    \/ run_once

\* kernel_main's loop calls run_once forever
SpecTaskFair == InitTask /\ [][NextTaskBoot]_vars /\ WF_vars(run_once)

----------------------------------------------------------------------------
(* The functions that compute a result from their arguments *)

\* the kernel state these functions neither read nor write
IdleKernel == InitTxn /\ IdleXhci /\ IdlePmm /\ IdleTask

InitParse == IdleKernel /\ IdleLayout /\ IdleAgent /\ IdleKbd /\ IdleRings /\ IdleTaskCtx /\ IdleBoot /\ ParseReady

SpecParse == InitParse /\ [][parse_hid_keyboard_endpoint]_vars

InitLayout == IdleKernel /\ IdleParse /\ IdleAgent /\ IdleKbd /\ IdleRings /\ IdleTaskCtx /\ IdleBoot /\ LayoutReady

SpecLayout == InitLayout /\ [][compute_layout]_vars

InitKbd == IdleKernel /\ IdleCalc

NextKbd == \E scancode \in Scancodes : keyboard(scancode)

SpecKbd == InitKbd /\ [][NextKbd]_vars

\* the build is either one
InitAgent ==
    /\ InitTxn /\ IdleXhci /\ IdleTask /\ IdleParse /\ IdleLayout /\ IdleKbd /\ IdleRings
    /\ IdleTaskCtx /\ IdleBoot
    /\ NEXT_FREE = 0 /\ LIMIT = 0 /\ region = [base |-> 0, limit |-> 0]
    /\ alloc = [c \in Callers |-> IdleAlloc] /\ granted = << >>
    /\ overflow_checks \in BOOLEAN
    /\ AgentReady

NextAgent == \E now \in Samples : agent_step(now)

SpecAgent == InitAgent /\ [][NextAgent]_vars

----------------------------------------------------------------------------
(* The transaction engine as the kernel runs it, and with interleaved callers *)

NextTxn ==
    \/ set_system_ready
    \/ TimerTick
    \/ PageFault
    \/ ProposeStep(1, Kinds, Params)

\* the state kernel_main's initialisation leaves; the xHCI driver is idle
Init == InitTxn /\ IdlePmm /\ IdleTask /\ IdleCalc /\ InitXhci

SpecTxn == Init /\ [][NextTxn]_vars

\* the actions proposed when the two call sites interleave
ConcKinds == {SetQuantum}
ConcParams == {U64(0, 2000), U64(0, 50001)}

\* both call sites of ai_propose_action running with their steps interleaved
NextTxnConc ==
    \/ set_system_ready
    \/ TimerTick
    \/ PageFault
    \/ \E c \in Ctx : ProposeStep(c, ConcKinds, ConcParams)

SpecTxnConc == Init /\ [][NextTxnConc]_vars

\* the quantum each call site proposes while the main loop runs
ReadyParams == [c \in Ctx |-> IF c = 1 THEN {U64(0, 2000)} ELSE {U64(0, 100)}]

\* kernel_main has called set_system_ready and nothing has been proposed since
InitReady ==
    /\ IdlePmm /\ IdleTask /\ IdleCalc /\ InitXhci
    /\ SYSTEM_READY = TRUE
    /\ QUANTUM_US = QuantumInit
    /\ SEQ = 0
    /\ APPLY_LOCK = 0
    /\ TIMER_TICKS = 0
    /\ PAGE_FAULTS = 0
    /\ halted = FALSE
    /\ journal = << >>
    /\ ctx = [c \in Ctx |-> IdleCtx]
    /\ assigned = << >>

\* both call sites proposing quanta after set_system_ready, steps interleaved
NextTxnReady ==
    \/ TimerTick
    \/ \E c \in Ctx : \E p \in ReadyParams[c] : Propose(c, SetQuantum, p)
    \/ \E c \in Ctx : SeqLoad(c)
    \/ \E c \in Ctx : SeqStore(c)
    \/ \E c \in Ctx : Gate(c)
    \/ \E c \in Ctx : Lock(c)
    \/ \E c \in Ctx : Snapshot(c)
    \/ \E c \in Ctx : Intent(c)
    \/ \E c \in Ctx : Execute(c)
    \/ \E c \in Ctx : SelfTestStart(c)
    \/ \E c \in Ctx : SelfTestSpin(c)
    \/ \E c \in Ctx : Finish(c)
    \/ \E c \in Ctx : Return(c)

SpecTxnReady == InitReady /\ [][NextTxnReady]_vars

----------------------------------------------------------------------------
(* Properties of the transaction engine *)

Terminal == {"APPLY_OK", "APPLY_FAIL", "REJECT"}

\* the journal lines carrying seq s, in order
LinesOf(s) == SelectSeq(journal, LAMBDA l : l.seq = s)
VerbsOf(s) == [i \in DOMAIN LinesOf(s) |-> LinesOf(s)[i].verb]
TerminalCount(s) ==
    Cardinality({i \in DOMAIN journal : journal[i].seq = s /\ journal[i].verb \in Terminal})

\* a u64 param1 lies in [100, 50000]
QuantumInRange(p) == U64Ge(p, QuantumMin) /\ U64Le(p, QuantumMax)

\* C1: every propose call made while system_ready leaves, once it has returned,
\* exactly one terminal line (APPLY_OK, APPLY_FAIL or REJECT) carrying its seq,
\* and at no moment more than one.
C1_ExactlyOneTerminal ==
    \A i \in DOMAIN assigned :
        assigned[i].ready =>
            /\ TerminalCount(assigned[i].seq) <= 1
            /\ assigned[i].done => TerminalCount(assigned[i].seq) = 1

\* two calls made while ready have returned, one rolled back and one rejected or committed
C1_Witness ==
    /\ Len(assigned) = 2
    /\ \A i \in DOMAIN assigned : assigned[i].ready /\ assigned[i].done
    /\ \E i \in DOMAIN journal : journal[i].verb = "APPLY_FAIL"
    /\ \E i \in DOMAIN journal : journal[i].verb \in {"APPLY_OK", "REJECT"}

\* C2: when propose returns SELFTEST_FAILED, quantum_us equals the value
\* snapshotted as the before-state of that transaction.
C2_RollbackRestores ==
    \A c \in Ctx :
        (ctx[c].pc = "ret" /\ ctx[c].res = SelfTestFailed) => QUANTUM_US = ctx[c].before

\* a SetQuantum whose write changed the quantum has been rolled back
C2_Witness ==
    \E c \in Ctx :
        /\ ctx[c].pc = "ret" /\ ctx[c].res = SelfTestFailed
        /\ ctx[c].a.kind = SetQuantum
        /\ AsU32(ctx[c].a.param1) # ctx[c].before

\* C3: a propose entered before set_system_ready returns REJECTED (1), journals
\* exactly one line for its seq, a REJECT, and leaves quantum_us unchanged.
C3_NotReadyRejects ==
    \A c \in Ctx :
        (ctx[c].pc = "ret" /\ ~ctx[c].entry_ready) =>
            /\ ctx[c].res = NotAllowed
            /\ VerbsOf(ctx[c].seq) = <<"REJECT">>
            /\ QUANTUM_US = ctx[c].entry_q

\* an otherwise valid SetQuantum has been rejected before readiness
C3_Witness ==
    \E c \in Ctx :
        /\ ctx[c].pc = "ret" /\ ~ctx[c].entry_ready
        /\ ctx[c].a.kind = SetQuantum /\ QuantumInRange(ctx[c].a.param1)

\* C4: while system_ready, a SetQuantum whose 64-bit param1 lies outside
\* [100, 50000] is rejected: one REJECT line, result 1, quantum_us unchanged.
C4_OutOfRangeQuantumRejected ==
    \A c \in Ctx :
        (/\ ctx[c].pc = "ret" /\ ctx[c].entry_ready
         /\ ctx[c].a.kind = SetQuantum /\ ~QuantumInRange(ctx[c].a.param1)) =>
            /\ ctx[c].res = NotAllowed
            /\ VerbsOf(ctx[c].seq) = <<"REJECT">>
            /\ QUANTUM_US = ctx[c].entry_q

\* C5: while system_ready, an action of a kind other than SetQuantum and TrimCache,
\* or a TrimCache of 0 bytes or of more than 16 MiB, is rejected: one REJECT line
\* and no INTENT line, result 1, quantum_us unchanged, apply mutex never taken.
C5_Unsupported(a) ==
    \/ ~(a.kind \in {SetQuantum, TrimCache})
    \/ a.kind = TrimCache /\ (a.param1 = U64(0, 0) \/ ~U64Le(a.param1, TrimMaxBytes))

C5_UnsupportedRejected ==
    \A c \in Ctx :
        (ctx[c].pc = "ret" /\ ctx[c].entry_ready /\ C5_Unsupported(ctx[c].a)) =>
            /\ ctx[c].res = NotAllowed
            /\ VerbsOf(ctx[c].seq) = <<"REJECT">>
            /\ QUANTUM_US = ctx[c].entry_q
            /\ ~ctx[c].took_lock

\* a TrimCache of 0 bytes has been rejected while ready
C5_Witness ==
    \E c \in Ctx :
        /\ ctx[c].pc = "ret" /\ ctx[c].entry_ready
        /\ ctx[c].a.kind = TrimCache /\ ctx[c].a.param1 = U64(0, 0)
        /\ ctx[c].res = NotAllowed

\* C6: while system_ready, a SetQuantum with param1 = p in [100, 50000] whose
\* self-test passes journals INTENT then APPLY_OK for its seq and nothing else,
\* returns result 0 and leaves quantum_us = p.
C6_HappyPath ==
    \A c \in Ctx :
        (/\ ctx[c].pc = "ret" /\ ctx[c].entry_ready
         /\ ctx[c].a.kind = SetQuantum /\ QuantumInRange(ctx[c].a.param1)
         /\ ctx[c].st = "pass") =>
            /\ LinesOf(ctx[c].seq) = <<journal_intent(ctx[c].seq, ctx[c].a),
                                        journal_commit(ctx[c].seq, ctx[c].a)>>
            /\ ctx[c].res = 0
            /\ ctx[c].a.param1 = U64(0, QUANTUM_US)

\* SetQuantum(2000) has been committed over a different quantum
C6_Witness ==
    \E c \in Ctx :
        /\ ctx[c].pc = "ret" /\ ctx[c].entry_ready /\ ctx[c].st = "pass"
        /\ ctx[c].a = [kind |-> SetQuantum, param1 |-> U64(0, 2000)]
        /\ ctx[c].before # 2000

\* C7: the seqs obtained by propose calls are strictly increasing in call order,
\* hence unique, also when the calls interleave.
C7_SeqUniqueIncreasing ==
    \A i, j \in DOMAIN assigned : i < j => assigned[i].seq < assigned[j].seq

----------------------------------------------------------------------------
(* Properties of the xHCI rings *)

RingNames == {"cmd", "ep0", "intr"}

\* what a consumer observes that starts at slot `index` with cycle state `ccs`,
\* consumes the entries whose cycle bit equals its state, and follows a Link TRB
\* to slot 0 (toggling its state when the link's toggle bit is set)
RECURSIVE Consume(_, _, _, _)
Consume(trbs, index, ccs, fuel) ==
    IF fuel = 0 \/ trbs[index + 1].cycle # ccs
    THEN << >>
    ELSE IF trbs[index + 1].type = TRB_TYPE_LINK
    THEN Consume(trbs, 0, IF trbs[index + 1].tc THEN 1 - ccs ELSE ccs, fuel - 1)
    ELSE <<trbs[index + 1]>> \o Consume(trbs, index + 1, ccs, fuel - 1)

\* C8: after n < capacity-1 enqueues on a fresh command, EP0 or interrupt ring,
\* a consumer starting at slot 0 with cycle state 1 observes exactly the enqueued
\* TRBs, in order, each once, each with the producer's cycle at its enqueue.
C8_ConsumerObservesEnqueues ==
    \A r \in RingNames :
        Len(enq_log[r]) < RingLen - 1 =>
            LET seen == Consume(rings[r], 0, 1, 2 * RingLen)
            IN  /\ Len(seen) = Len(enq_log[r])
                /\ \A i \in DOMAIN seen :
                      /\ seen[i] = enq_log[r][i].trb
                      /\ seen[i].cycle = enq_log[r][i].cycle

\* every ring holds capacity-2 enqueued TRBs
C8_Witness ==
    \A r \in RingNames : Len(enq_log[r]) = RingLen - 2 /\ RingLen - 2 >= 2

----------------------------------------------------------------------------
(* Properties of HID polling *)

\* HID polling is active: start_hid_polling has set up the report buffer
PollingActive == cs.hid_buf_phys # 0 /\ cs.intr_ring_len > 0

\* poll_events is about to dispatch a Transfer Event with completion code `code`
\* for the configured interrupt endpoint
DispatchingIntrEvent(code) ==
    /\ drv.pc = "poll_events" /\ EventPending
    /\ LET ev == event_ring[cs.event_ring_dequeue + 1]
       IN  /\ ev.type = TRB_TYPE_TRANSFER_EVENT
           /\ ev.code = code
           /\ ev.ep_id = cs.intr_ep_id

Posts == Len(enq_log.intr)

IntrFailureSeen ==
    /\ PollingActive
    /\ cs.last_transfer_ep = Some(cs.intr_ep_id)
    /\ cs.last_transfer_code # None
    /\ cs.last_transfer_code # Some(CC_SUCCESS)

----------------------------------------------------------------------------
(* Controller bring-up *)

\* a call of init_controller that began with the singleton in place has returned
SecondInitReturned ==
    /\ drv.pc = "main" /\ drv.result # "none"
    /\ drv.entry # << >> /\ drv.entry[1].cs.present

\* C11: once init_controller has succeeded, a further call is a no-op: when it
\* returns, the singleton, the programmed registers (CRCR, DCBAAP, ERSTBA, ERDP,
\* run state) and the number of allocated blocks are what they were when it was
\* entered, and the singleton's ring addresses are the ones the controller holds.
C11_SecondInitIsNoOp ==
    SecondInitReturned =>
        /\ cs = drv.entry[1].cs
        /\ Regs(hw) = drv.entry[1].regs
        /\ drv.allocs = drv.entry[1].allocs
        /\ hw.crcr = cs.command_ring_phys
        /\ hw.ev_segment = cs.event_ring_phys

\* C12: when a bounded wait of the bring-up expires (halt, reset, run or the
\* No-Op completion wait), init_controller returns an error and the controller
\* is left stopped (RUN_STOP clear).
C12_TimeoutIsErrorAndHalted ==
    (drv.pc = "main" /\ drv.timed_out) => (drv.result = "err" /\ ~hw.run_stop)

----------------------------------------------------------------------------
(* Enumeration *)

\* the enumeration has failed: the controller has reported a command or a
\* control transfer of it with a completion code other than 1, or a step has
\* returned none/false (a code other than 1 was read, or the wait expired)
EnumerationFailed == hw.failed \/ drv.failed_at # "none"

\* C13: once a command or control transfer of the enumeration completes with a
\* code other than 1, or times out, no further command or transfer TRB is
\* enqueued and no further doorbell is rung.
C13_FailureStopsEnumeration ==
    [][EnumerationFailed => (enq_log' = enq_log /\ doorbells' = doorbells)]_vars

----------------------------------------------------------------------------
(* Blocking operations *)

CommandSteps == {"enable_slot", "address_device", "configure_interrupt_in_endpoint"}
TransferSteps == ControlInSteps \cup {"set_configuration"}

\* the wait of the current step reads its last poll and finds nothing awaited
CommandWaitExpires ==
    /\ drv.pc = "wait_check" /\ drv.step \in CommandSteps
    /\ cs.last_completion_code = None /\ drv.spins + 1 = PollBudget

TransferWaitExpires ==
    /\ drv.pc = "wait_check" /\ drv.step \in TransferSteps
    /\ cs.last_transfer_code = None /\ drv.spins + 1 = PollBudget

PortWaitExpires ==
    /\ drv.pc = "port_enabled_wait" /\ ~hw.port.ped /\ drv.spins + 1 = WaitBudget

\* the step returned none/false to log_usb_controllers, which went to its end
StepFailed == drv'.pc = "enum_end" /\ drv'.failed_at = drv.step

\* C14: every blocking operation terminates.  No wait polls beyond its budget;
\* when the budget is used up and the controller has not produced the awaited
\* bit or event, wait_for_command_completion, control_in and control_no_data
\* make their caller return none/false and reset_port returns false; a
\* self-test during which the timer never ticks ends after at most SpinBudget
\* spins with SELFTEST_FAILED; after a failure nothing is enqueued again (no
\* implicit retry).
C14_BlockingOperationsTerminate ==
    [][/\ drv.pc \in {"port_reset_wait", "port_enabled_wait"} => drv.spins < WaitBudget
       /\ drv.pc \in {"wait_poll", "wait_check"} => drv.spins < PollBudget
       /\ \A c \in Ctx : /\ ctx[c].spin <= SpinBudget
                         /\ ctx[c].pc = "st_spin" => ctx[c].spin < SpinBudget
       /\ (drv' # drv /\ (CommandWaitExpires \/ TransferWaitExpires)) => StepFailed
       /\ (drv' # drv /\ PortWaitExpires) => (drv'.pc = "enum_issue" /\ ~drv'.port_ok)
       /\ \A c \in Ctx :
             (ctx[c].pc = "st_eval" /\ TIMER_TICKS = ctx[c].start_ticks
              /\ ctx'[c].pc = "ret") => ctx'[c].res = SelfTestFailed
       /\ drv.failed_at # "none" => (enq_log' = enq_log /\ doorbells' = doorbells)
      ]_vars

\* a control_in gave up on a controller that never answered, and a later
\* command wait before it did not
C14_Witness ==
    /\ drv.failed_at = "get_device_descriptor"
    /\ hw.ep0_dequeue = 0 /\ ~hw.failed
    /\ cs.last_transfer_code = None

----------------------------------------------------------------------------
(* Properties of the allocator *)

\* the multiple of max(PAGE_SIZE, align) the size rounds up to, in unbounded
\* arithmetic
RoundedSize(size, align) ==
    LET m == Max(PAGE_SIZE, align)
    IN  ((size + m - 1) \div m) * m

\* the cursor rounded up to align, in unbounded arithmetic
AlignedCursor(cursor, align) == ((cursor + align - 1) \div align) * align

\* C15: every address returned by a successful alloc_aligned is a multiple of
\* the requested align, the range of an earlier allocation ends at or before
\* the address of a later one, and every returned range lies inside the region
\* selected by init
C15_AllocationsAlignedOrderedInRegion ==
    \A i \in DOMAIN granted :
        /\ granted[i].addr % granted[i].align = 0
        /\ region.base <= granted[i].addr
        /\ granted[i].addr + granted[i].size <= region.limit
        /\ \A j \in DOMAIN granted :
              i < j => granted[i].addr + granted[i].size <= granted[j].addr

\* the call of caller c has come to its end, by return or by panic
Completed(c) == alloc[c].pc \in {"done", "panic"}

\* the request of caller c is one that must be refused: the align is zero or
\* not a power of two, or the rounded-up size does not fit between the aligned
\* cursor and the limit
MustRefuse(c) ==
    LET a == alloc[c]
    IN  \/ a.align = 0
        \/ \A n \in 0..WordBits : a.align # 2 ^ n
        \/ AlignedCursor(a.entry, a.align) + RoundedSize(a.size, a.align) > LIMIT

\* C16: alloc_aligned returns none, without advancing the cursor and without
\* aborting, whenever align is zero or not a power of two or the rounded-up
\* size does not fit between the aligned cursor and the limit, for every size
\* and align, those whose round-up overflows the word included
C16_InvalidRequestReturnsNone ==
    \A c \in Callers :
        (Completed(c) /\ MustRefuse(c)) =>
            /\ alloc[c].pc = "done"
            /\ alloc[c].ret = None
            /\ NEXT_FREE = alloc[c].entry

\* the ranges handed out so far are pairwise disjoint and the cursor is past
\* every one of them
RangesDisjointBelowCursor ==
    \A i \in DOMAIN granted :
        /\ granted[i].addr + granted[i].size <= NEXT_FREE
        /\ \A j \in DOMAIN granted :
              i # j => \/ granted[i].addr + granted[i].size <= granted[j].addr
                       \/ granted[j].addr + granted[j].size <= granted[i].addr

\* a compare_exchange that finds another cursor than the one loaded changes
\* nothing and sends the caller back to the load, and a load takes the cursor
\* of that moment
FailedCasRetriesFresh ==
    \A c \in Callers :
        /\ (alloc[c].pc = "cas" /\ alloc'[c] # alloc[c] /\ NEXT_FREE # alloc[c].current)
              => /\ alloc'[c].pc = "load"
                 /\ alloc'[c].ret = None
                 /\ NEXT_FREE' = NEXT_FREE
                 /\ granted' = granted
        /\ (alloc[c].pc = "load" /\ alloc'[c] # alloc[c])
              => alloc'[c].current = NEXT_FREE

\* C17: with the steps of two callers of alloc_aligned interleaved, a caller
\* whose compare-and-swap fails retries with the fresh cursor, the ranges
\* returned to the two callers never overlap and the cursor ends past both
C17_InterleavedCallersDisjoint ==
    /\ []RangesDisjointBelowCursor
    /\ [][FailedCasRetriesFresh]_vars

\* both callers hold a range, one of them after a failed compare-and-swap
C17_Witness ==
    /\ \E i, j \in DOMAIN granted : granted[i].caller = 1 /\ granted[j].caller = 2
    /\ \E c \in Callers :
          alloc[c].pc = "done" /\ alloc[c].ret # None /\ alloc[c].retries >= 1

----------------------------------------------------------------------------
(* Properties of the task table *)

Occupied(tasks) == {i \in SlotIndex : tasks[i] # None}

\* the occupied slot that follows slot i in slot order, wrapping at the end
NextOccupied(tasks, i) ==
    LET d == CHOOSE n \in 1..TaskSlots :
                 /\ tasks[(i + n) % TaskSlots] # None
                 /\ \A n2 \in 1..(n - 1) : tasks[(i + n2) % TaskSlots] = None
    IN  (i + d) % TaskSlots

\* since the last registration, every k consecutive calls of run_once, k the
\* number of registered callbacks, invoked every registered callback once and
\* in slot order
RoundRobinWindows ==
    LET runs == task_log.runs
        occ == Occupied(TASKS)
        k == Cardinality(occ)
    IN  k >= 1 =>
          \A s \in 1..(Len(runs) - k + 1) :
              /\ {runs[n] : n \in s..(s + k - 1)} = occ
              /\ \A n \in s..(s + k - 2) : runs[n + 1] = NextOccupied(TASKS, runs[n])

\* the call that just returned was a run_once that invoked the callback of slot
Invoked(slot) ==
    task_log.last.op = "run_once" /\ task_log.last.invoked = <<slot>>

\* C18: with k >= 1 callbacks registered and no further registration, any k
\* consecutive run_once calls invoke each registered callback exactly once, in
\* slot order, and so every registered callback is invoked again and again
\* while run_once keeps being called
C18_RoundRobin ==
    /\ []RoundRobinWindows
    /\ \A slot \in SlotIndex : (TASKS[slot] # None) ~> Invoked(slot)

\* three callbacks, and run_once called more often than that since the last
\* registration
C18_Witness ==
    /\ runqueue_len(TASKS) = 3
    /\ Len(task_log.runs) = TaskSlots

\* C19: a call of run_once invokes at most one registered callback and returns;
\* it invokes none only when no callback is registered, and then the cursor and
\* the table are as they were
C19_AtMostOneCallback ==
    LET last == task_log.last
    IN  last.op = "run_once" =>
          /\ Len(last.invoked) <= 1
          /\ \A n \in DOMAIN last.invoked : last.tasks[last.invoked[n]] # None
          /\ last.invoked = << >> =>
                /\ Occupied(last.tasks) = {}
                /\ NEXT_INDEX = last.idx
          /\ TASKS = last.tasks

\* run_once invoked one callback of a table that holds several
C19_Witness ==
    /\ task_log.last.op = "run_once"
    /\ Len(task_log.last.invoked) = 1
    /\ runqueue_len(task_log.last.tasks) >= 2

\* what a call of register left behind
RegisterContract ==
    LET last == task_log.last
        full == Occupied(last.tasks) = SlotIndex
    IN  last.op = "register" =>
          /\ last.result = ~full
          /\ full => TASKS = last.tasks
          /\ ~full =>
                \E i \in SlotIndex :
                    /\ last.tasks[i] = None
                    /\ \A j \in 0..(i - 1) : last.tasks[j] # None
                    /\ TASKS = [last.tasks EXCEPT ![i] = Some(last.fn)]

\* C20: register stores the callback in the lowest-indexed empty slot and
\* returns true; with all 8 slots occupied it returns false and leaves the
\* table unchanged; the number of registered tasks never exceeds 8 and never
\* decreases
C20_RegisterLowestSlot ==
    /\ [](RegisterContract /\ runqueue_len(TASKS) <= 8)
    /\ [][runqueue_len(TASKS') >= runqueue_len(TASKS)]_vars

\* a register call that found the table full
C20_Witness ==
    /\ task_log.last.op = "register"
    /\ ~task_log.last.result
    /\ runqueue_len(TASKS) = 8

----------------------------------------------------------------------------
(* Properties of the descriptor parser *)

\* the offsets of the descriptors that lie whole inside the bytes, following
\* bLength from offset o
RECURSIVE Descriptors(_, _)
Descriptors(bytes, o) ==
    IF o + 2 > Len(bytes) THEN << >>
    ELSE IF bytes[o + 1] = 0 \/ o + bytes[o + 1] > Len(bytes) THEN << >>
    ELSE <<o>> \o Descriptors(bytes, o + bytes[o + 1])

\* the descriptor at offset o is an Interface descriptor of length >= 9
IsInterface(bytes, o) == bytes[o + 2] = 4 /\ bytes[o + 1] >= 9

\* the n-th descriptor is an IN interrupt Endpoint descriptor of length >= 7
\* and the last Interface descriptor before it is a boot keyboard
Qualifies(bytes, ds, n) ==
    LET o == ds[n]
    IN  /\ bytes[o + 2] = 5 /\ bytes[o + 1] >= 7
        /\ bytes[o + 3] >= 128
        /\ bytes[o + 4] % 4 = 3
        /\ \E m \in 1..(n - 1) :
              /\ IsInterface(bytes, ds[m])
              /\ \A m2 \in (m + 1)..(n - 1) : ~IsInterface(bytes, ds[m2])
              /\ bytes[ds[m] + 6] = 3 /\ bytes[ds[m] + 7] = 1 /\ bytes[ds[m] + 8] = 1

\* what the parser has to return
FirstKeyboardEndpoint(bytes) ==
    LET ds == Descriptors(bytes, 0)
        q == {n \in DOMAIN ds : Qualifies(bytes, ds, n)}
    IN  IF q = {} THEN None
        ELSE LET o == ds[CHOOSE n \in q : \A n2 \in q : n <= n2]
             IN  Some([addr |-> bytes[o + 3],
                       maxp |-> bytes[o + 5] + 256 * bytes[o + 6],
                       interval |-> bytes[o + 7]])

\* C21: for every configuration descriptor of total_len bytes, zero-length and
\* truncated ones included, parse_hid_keyboard_endpoint ends without reading
\* past total_len and returns (addr, maxp, bInterval) of the first IN interrupt
\* Endpoint descriptor whose most recent Interface descriptor is a boot
\* keyboard, and none in every other case
C21_ParserReturnsFirstKeyboardEndpoint ==
    hid_parse.pc = "done" =>
        /\ hid_parse.ret = FirstKeyboardEndpoint(hid_parse.bytes)
        /\ hid_parse.last_read < Len(hid_parse.bytes)

\* the second of two endpoints was returned, after an interface that is a
\* keyboard and an OUT endpoint
C21_Witness ==
    /\ hid_parse.pc = "done"
    /\ hid_parse.bytes = <<9, 4, 0, 0, 1, 3, 1, 1, 0>> \o <<7, 5, 1, 3, 8, 0, 10>>
                            \o <<7, 5, 131, 7, 0, 4, 1>>
    /\ hid_parse.ret = Some([addr |-> 131, maxp |-> 1024, interval |-> 1])

----------------------------------------------------------------------------
(* Properties of the weights layout *)

\* the width of layer l as the format defines it
FormatOutDim(h, l) ==
    IF l = h.n_layers - 1 /\ h.vocab # 0 THEN h.vocab ELSE h.hidden

\* the bytes of layer l: int8 weights out_dim x in_dim, then out_dim int32 biases
FormatLayerBytes(h, l) == h.hidden * FormatOutDim(h, l) + 4 * FormatOutDim(h, l)

\* layer 0 starts at offset 16, the biases of a layer follow its weights, the
\* next layer follows the biases, and the last layer ends at 16 + total_bytes
LayoutContiguous ==
    LET h == layout.h
        L == layout.layers
    IN  /\ layout.total # None
        /\ \A l \in 0..(h.n_layers - 1) :
              /\ L[l + 1].weights # None /\ L[l + 1].bias # None
              /\ L[l + 1].dims = Some([in_dim |-> h.hidden, out_dim |-> FormatOutDim(h, l)])
        /\ L[1].weights = Some(PAYLOAD_OFFSET)
        /\ \A l \in 0..(h.n_layers - 1) :
              LET w == CHOOSE x \in L[l + 1].weights : TRUE
                  b == CHOOSE x \in L[l + 1].bias : TRUE
              IN  /\ b = w + h.hidden * FormatOutDim(h, l)
                  /\ IF l + 1 < h.n_layers
                     THEN L[l + 2].weights = Some(w + FormatLayerBytes(h, l))
                     ELSE layout.total = Some(w + FormatLayerBytes(h, l) - PAYLOAD_OFFSET)

\* C24 as stated: for every valid model header (dtype 0 or 1) layer 0 starts
\* at payload offset 16, the biases of a layer start in_dim*out_dim after its
\* weights, consecutive layers are in_dim*out_dim + 4*out_dim apart and the
\* layers together cover exactly total_weights_bytes
C24_LayoutOfEveryValidHeader ==
    (layout.pc = "done" /\ valid(layout.h)) => LayoutContiguous

\* C24, for the headers the layout functions accept: for every valid model
\* header of dtype 0 (int8) layer 0 starts at payload offset 16, the biases of
\* a layer start in_dim*out_dim after its weights, consecutive layers are
\* in_dim*out_dim + 4*out_dim apart and the layers together cover exactly
\* total_weights_bytes
C24_LayoutOfInt8Header ==
    (layout.pc = "done" /\ valid(layout.h) /\ layout.h.dtype = 0) => LayoutContiguous

\* three layers, the last one of another width
C24_Witness ==
    /\ layout.pc = "done" /\ valid(layout.h) /\ layout.h.dtype = 0
    /\ layout.h.n_layers = 3 /\ layout.h.hidden = 16 /\ layout.h.vocab = 1000
    /\ layout.total = Some(2 * (256 + 64) + 16000 + 4000)

----------------------------------------------------------------------------
(* Properties of the agent step *)

Clamp(x, lo, hi) == IF x < lo THEN lo ELSE IF x > hi THEN hi ELSE x

\* the action the step contract asks for, given the sample and the score
ContractAction(tel, score) ==
    IF tel.free_kb < 8192 \/ tel.pf_rate > 0
    THEN [kind |-> TrimCache, flags |-> 1, param1 |-> 1048576]
    ELSE [kind |-> SetQuantum, flags |-> 1, param1 |-> Clamp(1000 + 20 * score, 100, 50000)]

\* C22: for every telemetry sample the step proposes TrimCache(1 MiB) with
\* REQUIRES_SNAPSHOT when free_kb < 8192 or pf_rate > 0, and SetQuantum(clamp(
\* 1000 + 20*score, 100, 50000)) with REQUIRES_SNAPSHOT otherwise, and it
\* submits exactly one proposal
C22_StepProposesByContract ==
    agent.last.tel # None =>
        /\ agent.last.score # None
        /\ agent.last.submitted =
              <<ContractAction(CHOOSE t \in agent.last.tel : TRUE,
                               CHOOSE s \in agent.last.score : TRUE)>>

\* the second step of an agent without weights found much free memory: the
\* quantum is the lower end of the range
C22_Witness ==
    /\ agent.last.n = 2
    /\ agent.last.tel # None
    /\ agent.last.score = Some(-63)
    /\ agent.last.submitted = <<[kind |-> SetQuantum, flags |-> 1, param1 |-> 100]>>

\* the blob is absent, or present with a header whose weights do not fit its
\* length
NoWeights ==
    \/ ~agent.blob.present
    \/ /\ valid(agent.blob.hdr) /\ compute(agent.blob.hdr) # None
       /\ \E t \in compute(agent.blob.hdr) : agent.blob.len < 16 + t

\* score = runq + irq_rate/2 - pf_rate - free_mb/8, within [-127, 127]
FallbackScore(tel) ==
    Clamp(tel.runq + tel.irq_rate \div 2 - tel.pf_rate - (tel.free_kb \div 1024) \div 8,
          -127, 127)

\* C23: when the model blob is absent, or present but shorter than 16 +
\* total_weights_bytes, the step still proposes an action, with the score of
\* the heuristic runq + irq_rate/2 - pf_rate - free_mb/8
C23_FallbackWithoutWeights ==
    (agent.last.ran /\ NoWeights) =>
        /\ Len(agent.last.submitted) = 1
        /\ agent.last.tel # None
        /\ \E t \in agent.last.tel : agent.last.score = Some(FallbackScore(t))

----------------------------------------------------------------------------
(* Properties of the keyboard *)

\* C25: handle_scancode returns a shutdown combo exactly on a press of X (0x2D)
\* or C (0x2E) while Ctrl is held, that is while the last Ctrl scancode was the
\* press 0x1D and not the release 0x9D; after a Ctrl release, X and C return
\* none
C25_ComboOnlyWhileCtrlHeld ==
    kbd.n > 0 =>
        kbd.ret = IF kbd.ctrl_before = 29 /\ kbd.scancode = 45 THEN Some("Ctrl+X")
                  ELSE IF kbd.ctrl_before = 29 /\ kbd.scancode = 46 THEN Some("Ctrl+C")
                  ELSE None

\* Ctrl was pressed and released, then X returns none
C25_Witness ==
    /\ kbd.n = 3 /\ kbd.ctrl_before = 157 /\ kbd.scancode = 45 /\ kbd.ret = None

----------------------------------------------------------------------------
(* Properties of the rings over wraps *)

\* the consumer of ring r stands on the last slot
AtLink(r) == consumer[r].dequeue = RingLen - 1

\* C26: for any number of enqueues, over any number of wraps, a consumer that
\* keeps pace and follows the Link TRB observes every enqueued TRB exactly once
\* and in order, and whenever it reaches the last slot the Link TRB's cycle bit
\* equals its cycle state
C26_ConsumerFollowsWraps ==
    \A r \in RingNames :
        /\ Len(consumer[r].seen) <= Len(enq_log[r])
        /\ \A i \in DOMAIN consumer[r].seen : consumer[r].seen[i] = enq_log[r][i].trb
        /\ AtLink(r) => rings[r][RingLen].cycle = consumer[r].ccs
        /\ (~AtLink(r) /\ Len(consumer[r].seen) < Len(enq_log[r])) =>
               rings[r][consumer[r].dequeue + 1] = enq_log[r][Len(consumer[r].seen) + 1].trb

\* the same on the first lap of the consumer
FirstLapFollowed ==
    \A r \in RingNames :
        consumer[r].crossings = 0 =>
            /\ \A i \in DOMAIN consumer[r].seen : consumer[r].seen[i] = enq_log[r][i].trb
            /\ AtLink(r) => rings[r][RingLen].cycle = consumer[r].ccs

\* the enqueue history of the driver's rings and of the CommandRing
ProducerLog(r) == IF r = "cr" THEN command_ring.log ELSE enq_log[r]
ProducerTrbs(r) == IF r = "cr" THEN command_ring.trbs ELSE rings[r]

\* the enqueues of ring r went to slots 0..len-2 in turn, back to 0 after
\* len-2, with the cycle state flipped exactly there, and the Link TRB is as
\* created
StaysBelowLink(r) ==
    LET log == ProducerLog(r)
    IN  /\ \A i \in DOMAIN log :
              /\ log[i].index \in 0..(RingLen - 2)
              /\ log[i].index = (i - 1) % (RingLen - 1)
              /\ i > 1 => ((log[i].cycle # log[i - 1].cycle) <=> (log[i].index = 0))
        /\ ProducerTrbs(r)[RingLen] = FreshRing(RingLen)[RingLen]

\* C27: every ring producer writes only slots 0..len-2, wraps its enqueue
\* index to 0 after slot len-2 and toggles its cycle state exactly at that
\* wrap, and never overwrites the Link TRB in slot len-1: the command ring,
\* the EP0 ring, the interrupt ring and CommandRing::enqueue_slot
C27_ProducersStayBelowLink ==
    \A r \in RingNames \cup {"cr"} : StaysBelowLink(r)

\* the three rings of the driver state
DriverRingsStayBelowLink ==
    \A r \in RingNames : StaysBelowLink(r)

\* every driver ring has wrapped twice
DriverRingsWrappedTwice ==
    \A r \in RingNames : Len(enq_log[r]) = 2 * (RingLen - 1) + 1

----------------------------------------------------------------------------
(* Properties of the event dispatcher *)

\* the event ring state after n events were consumed: the dequeue index has
\* advanced n times modulo the ring length, the consumer cycle state has
\* toggled at every return to 0, and ERDP names that entry of the ring
ConsumedUpTo(n) ==
    /\ cs.event_ring_dequeue = n % EventRingLen
    /\ cs.event_ring_cycle = ((n \div EventRingLen) % 2 = 0)
    /\ erdp = n % EventRingLen
    /\ hw.erdp_segment = cs.event_ring_phys

\* one step of the dispatcher: an event handed to handle_event is the next one
\* in the order written; poll_events returns only at a cycle mismatch, having
\* handled every event written, and returns true iff it handled at least one
DispatchStep ==
    /\ drv'.last_event # drv.last_event => drv'.last_event = drv.last_event + 1
    /\ (drv.pc = "poll_events" /\ drv'.pc # "poll_events"
        /\ drv'.pc # "spin_in_handle_event") =>
            /\ ~EventPending
            /\ drv.last_event = hw.events
            /\ drv'.ret = (drv.last_event > drv.entry_event)

DispatchedOnceUnlessStuck ==
    /\ [](drv.pc # "spin_in_handle_event" => ConsumedUpTo(drv.last_event))
    /\ [][DispatchStep]_vars

\* the event ring has wrapped and poll_events has returned true
DispatchedAcrossWrap ==
    /\ PollingActive /\ drv.pc = "main" /\ drv.ret
    /\ drv.last_event = EventRingLen + 1 /\ drv.entry_event < EventRingLen

----------------------------------------------------------------------------
(* Properties of control_in *)

\* a step in which control_in enqueues its TRBs and rings the doorbell: three
\* more TRBs on the EP0 ring, Setup, Data (IN) and Status in this order, in
\* consecutive positions from the enqueue index on, each with IOC and the cycle
\* state the producer had at that position, no other slot written, and one more
\* doorbell (slot, 1)
ControlInWrites ==
    (drv.pc = "enum_issue" /\ drv.step \in ControlInSteps /\ drv'.pc = "wait_poll") =>
        LET n == Len(enq_log.ep0)
            usable == Ep0Trbs - 1
            Pos(k) == (cs.ep0_enqueue + k) % usable
            Cyc(k) == IF cs.ep0_enqueue + k >= usable THEN ~cs.ep0_cycle ELSE cs.ep0_cycle
            New(k) == enq_log'.ep0[n + 1 + k]
        IN  /\ Len(enq_log'.ep0) = n + 3
            /\ New(0).trb.type = TRB_TYPE_SETUP_STAGE
            /\ New(1).trb.type = TRB_TYPE_DATA_STAGE /\ New(1).trb.aux = 1
            /\ New(2).trb.type = TRB_TYPE_STATUS_STAGE /\ New(2).trb.aux = 0
            /\ \A k \in 0..2 :
                  /\ New(k).trb.ioc
                  /\ New(k).index = Pos(k)
                  /\ New(k).trb.cycle = CycleBit(Cyc(k))
                  /\ rings'.ep0[Pos(k) + 1] = New(k).trb
            /\ \A i \in 1..Ep0Trbs :
                  (\A k \in 0..2 : i # Pos(k) + 1) => rings'.ep0[i] = rings.ep0[i]
            /\ doorbells' = Append(doorbells, <<drv.slot, 1>>)

\* a step in which the wait of control_in ends: the caller goes on to its next
\* step exactly when the Transfer Event taken has completion code 1; any other
\* code, or no event within the budget, ends the enumeration
ControlInReturns ==
    (/\ drv.pc = "wait_check" /\ drv.step \in ControlInSteps
     /\ drv'.pc # "wait_check" /\ drv'.pc # "wait_poll") =>
        /\ (drv'.pc = "enum_issue") <=> (cs.last_transfer_code = Some(1))
        /\ (drv'.pc = "enum_end") <=> (cs.last_transfer_code # Some(1))
        /\ cs.last_transfer_code = None => drv.spins + 1 >= PollBudget

\* C29: control_in writes exactly three TRBs to consecutive EP0 ring positions
\* in the order Setup, Data(IN), Status, each with IOC and the EP0 producer's
\* cycle state at its own enqueue, also when the ring wraps between them; it
\* rings doorbell (slot, 1) exactly once, after the three; it returns true only
\* if the Transfer Event it consumed has completion code 1, and false on any
\* other code or on timeout
C29_ControlInThreeStages == [][ControlInWrites /\ ControlInReturns]_vars

\* the third control_in wrote across the Link TRB and returned true
C29_Witness ==
    /\ Len(enq_log.ep0) >= 9
    /\ enq_log.ep0[9].index < enq_log.ep0[7].index
    /\ enq_log.ep0[9].trb.cycle # enq_log.ep0[7].trb.cycle
    /\ drv.pc = "enum_issue" /\ drv.step = "set_configuration"

----------------------------------------------------------------------------
(* Properties of start_hid_polling *)

\* a step of start_hid_polling with the interrupt ring configured: the report
\* buffer of maxp bytes is recorded, one Normal TRB (buffer, maxp, IOC, producer
\* cycle) is written at the enqueue index, the doorbell (slot, endpoint id) is
\* rung and the function returns true
StartHidPollingStep ==
    (drv.pc = "enumerate" /\ drv'.pc # "enumerate" /\ cs.intr_ring_len # 0) =>
        LET trb == [type |-> TRB_TYPE_NORMAL, parameter |-> cs'.hid_buf_phys,
                    status |-> HidMaxp, ioc |-> TRUE, tc |-> FALSE,
                    cycle |-> CycleBit(cs.intr_cycle), aux |-> 0]
        IN  /\ cs.hid_buf_phys = 0 =>
                  cs'.hid_buf_phys = HidBufPhys /\ cs'.hid_buf_len = HidMaxp
            /\ cs.hid_buf_phys # 0 => cs'.hid_buf_phys = cs.hid_buf_phys
            /\ Len(enq_log'.intr) = Len(enq_log.intr) + 1
            /\ rings'.intr = [rings.intr EXCEPT ![cs.intr_enqueue + 1] = trb]
            /\ doorbells' = Append(doorbells, <<CHOOSE slot \in cs.active_slot : TRUE,
                                                cs.intr_ep_id>>)
            /\ drv'.pc = "main" /\ drv'.ret

\* C30: with the interrupt ring configured and memory available,
\* start_hid_polling allocates the maxp-byte input buffer once, enqueues one
\* Normal TRB {buffer, maxp, NORMAL | IOC | cycle} at the interrupt ring's
\* enqueue index, rings doorbell (slot, endpoint id) and returns true, which
\* takes the driver from EndpointConfigured to Polling
C30_StartHidPollingArms == [][StartHidPollingStep]_vars

\* the same without the doorbell and the return
StartHidPollingWrites ==
    [][(drv.pc = "enumerate" /\ drv'.pc # "enumerate" /\ cs.intr_ring_len # 0) =>
          /\ cs'.hid_buf_phys = HidBufPhys /\ cs'.hid_buf_len = HidMaxp
          /\ Len(enq_log'.intr) = Len(enq_log.intr) + 1
          /\ rings'.intr = [rings.intr EXCEPT ![cs.intr_enqueue + 1] =
                               HidTrb(HidBufPhys, HidMaxp, cs.intr_cycle)]]_vars


----------------------------------------------------------------------------
(* Properties of the order of the enumeration *)

\* an Enable Slot command has been put on the command ring
EnableSlotIssued ==
    \E i \in 1..Len(enq_log.cmd) : enq_log.cmd[i].trb.type = TRB_TYPE_ENABLE_SLOT

\* C31: the Enable Slot command is enqueued only after a connected port has
\* been found and reports enabled (PORTSC.PED = 1); when no port is connected,
\* or the port reset does not end with PED = 1, no Enable Slot command is issued
C31_EnableSlotOnlyWhenPortEnabled ==
    EnableSlotIssued => (drv.port_ok /\ hw.port.ccs /\ hw.port.ped)

\* the order itself: Enable Slot is issued after ensure_first_port_enabled has
\* returned, and each later step only after the one before it succeeded
EnableSlotAfterPortStep ==
    /\ [](drv.pc \in {"enum_begin", "enum_port", "port_reset_wait", "port_enabled_wait"}
             => ~EnableSlotIssued)
    /\ [][(~EnableSlotIssued /\ EnableSlotIssued') =>
             (drv.pc = "enum_issue" /\ drv.step = "enable_slot")]_vars

\* Enable Slot was issued although no port is connected
EnableSlotWithoutPort == EnableSlotIssued /\ ~hw.port.ccs /\ ~drv.port_ok

----------------------------------------------------------------------------
(* Properties of the apply mutex *)

\* context c is between its before-state snapshot and its APPLY_* line
InTransaction(c) == ctx[c].pc \in {"intent", "execute", "st_start", "st_spin", "st_eval"}

\* at most one context is in a transaction, and it holds APPLY_LOCK; nobody else
\* has written quantum_us since its snapshot
OneTransaction ==
    \A c \in Ctx :
        InTransaction(c) =>
            /\ APPLY_LOCK = c
            /\ \A d \in Ctx : InTransaction(d) => d = c
            /\ QUANTUM_US = IF ctx[c].pc \in {"intent", "execute"}
                            THEN ctx[c].before
                            ELSE ExecuteQuantum(ctx[c].a, ctx[c].before)

\* the INTENT and APPLY_* lines of the journal
TransactionLines ==
    LET IsTxn(l) == l.verb \in {"INTENT", "APPLY_OK", "APPLY_FAIL"}
    IN  SelectSeq(journal, IsTxn)

\* they come in pairs: an INTENT, then the APPLY_* line of the same transaction
LinesPaired ==
    LET t == TransactionLines
    IN  \A i \in DOMAIN t :
            IF i % 2 = 1
            THEN t[i].verb = "INTENT"
            ELSE t[i].verb \in {"APPLY_OK", "APPLY_FAIL"} /\ t[i].seq = t[i - 1].seq

\* a step that writes quantum_us is made by the holder of APPLY_LOCK, and the
\* rollback writes the holder's snapshot
WriteUnderLock ==
    /\ QUANTUM_US' # QUANTUM_US => \E c \in Ctx : APPLY_LOCK = c /\ InTransaction(c)
    /\ \A c \in Ctx :
          (ctx[c].pc \in {"execute", "st_eval"} /\ ctx'[c].pc # ctx[c].pc) =>
              /\ APPLY_LOCK = c
              /\ ctx'[c].res = SelfTestFailed => QUANTUM_US' = ctx[c].before

\* C32: at most one propose is between its before-state snapshot and its
\* APPLY_OK/APPLY_FAIL line at any time, and every write to quantum_us happens
\* while the apply mutex is held; with interleaved proposers the INTENT and
\* APPLY_* lines of two transactions never interleave, and the value restored
\* on rollback is the value that was current when that transaction began
C32_ApplyMutexSerializes ==
    [](OneTransaction /\ LinesPaired) /\ [][WriteUnderLock]_vars

\* one proposer has committed a new quantum; the other, which entered
\* ai_propose_action before that commit, has rolled back to the committed value
C32_Witness ==
    \E c, d \in Ctx :
        /\ c # d
        /\ ctx[d].pc = "ret" /\ ctx[d].res = 0
        /\ ctx[c].pc = "ret" /\ ctx[c].res = SelfTestFailed
        /\ ctx[c].entry_q = QuantumInit
        /\ ctx[c].before = AsU32(ctx[d].a.param1)
        /\ ctx[c].before # QuantumInit
        /\ AsU32(ctx[c].a.param1) # ctx[c].before
        /\ QUANTUM_US = ctx[c].before

----------------------------------------------------------------------------
(* Properties of the controller-state mutex *)

\* the driver waits in a lock() on the mutex its own caller holds
SelfDeadlocked == drv.pc \in {"spin_in_handle_event", "spin_in_start_hid_polling"}

\* C33: no driver code path acquires the controller-state mutex while the same
\* execution context already holds it: ring_doorbell, poll_events and the
\* enqueue helpers are called with the mutex released, so poll_events with its
\* event handlers, start_hid_polling and the enumeration steps never
\* self-deadlock on the non-reentrant spin lock
C33_NoReentrantLock == ~SelfDeadlocked

\* outside those two calls the mutex is free whenever a driver function asks
\* for it: the enumeration steps up to configure_interrupt_in_endpoint, and
\* every event handler but the re-post, run to their end
LockFreeElsewhere ==
    /\ [](drv.pc \in {"enum_issue", "wait_check", "main", "enum_end"}
             => CONTROLLER_LOCK = "free")
    /\ [][(SelfDeadlocked' /\ ~SelfDeadlocked) =>
             drv.pc \in {"enumerate", "poll_events"}]_vars

----------------------------------------------------------------------------
(* Properties of the completion waits *)

\* the controller has executed every TRB the driver put on the command ring
CommandsExecuted ==
    hw.cmd_dequeue = cs.command_ring_enqueue /\ hw.cmd_cycle = cs.command_ring_cycle

\* the controller has executed every TRB the driver put on the EP0 ring
TransferExecuted ==
    hw.ep0_dequeue = cs.ep0_enqueue /\ hw.ep0_cycle = cs.ep0_cycle

\* wait_for_command_completion returns Some: the completion it takes is that of
\* the command just issued, which is the last one on the ring
CommandWaitTakesOwn ==
    (/\ drv.pc = "wait_check" /\ drv.step \in CommandSteps
     /\ cs.last_completion_code # None
     /\ drv'.pc # "wait_check") => CommandsExecuted

\* control_in / control_no_data take a Transfer Event: it is the event of the
\* last stage of the transfer just issued
TransferWaitTakesOwn ==
    (/\ drv.pc = "wait_check" /\ drv.step \in TransferSteps
     /\ cs.last_transfer_code # None
     /\ drv'.pc # "wait_check") => TransferExecuted

\* C34: a wait returns only the completion of the request that it issued:
\* wait_for_command_completion never returns a Command Completion event of an
\* earlier command, and control_in/control_no_data never consume a Transfer
\* Event of an earlier transfer or of an earlier stage of a multi-TRB transfer,
\* so a true result means the device has finished that very transfer
C34_WaitReturnsOwnCompletion ==
    [][CommandWaitTakesOwn /\ TransferWaitTakesOwn]_vars

\* the command waits alone, when the No-Op of init_controller was completed
\* before init_controller returned
CommandWaitsAfterCompletedNoOp ==
    [][~drv.timed_out => CommandWaitTakesOwn]_vars

\* the command waits alone
CommandWaitsTakeOwn == [][CommandWaitTakesOwn]_vars

\* the transfer waits alone
TransferWaitsTakeOwn == [][TransferWaitTakesOwn]_vars

----------------------------------------------------------------------------
(* Properties of quantum_us *)

\* C35: in every reachable state quantum_us lies in [100, 50000] (initially
\* 1000), after any sequence of propose calls with arbitrary actions, arbitrary
\* 64-bit parameters and any self-test outcomes
C35_QuantumInRange ==
    /\ QUANTUM_US >= QuantumMin /\ QUANTUM_US <= QuantumMax
    /\ journal = << >> => QUANTUM_US = QuantumInit

\* a quantum at the upper end was committed, and a later proposal of another
\* quantum was rolled back to it
C35_Witness ==
    /\ QUANTUM_US = QuantumMax
    /\ \E c \in Ctx :
          /\ ctx[c].pc = "ret" /\ ctx[c].res = SelfTestFailed
          /\ ctx[c].a.kind = SetQuantum /\ AsU32(ctx[c].a.param1) # QuantumMax
    /\ \E i \in DOMAIN journal : journal[i].verb = "APPLY_OK"

\* a parameter above 2^32 was applied: its low half became the quantum
QuantumFromWideParam ==
    \E c \in Ctx :
        /\ ctx[c].pc = "ret" /\ ctx[c].res = 0
        /\ ctx[c].a.kind = SetQuantum /\ ctx[c].a.param1.hi > 0
        /\ QUANTUM_US = ctx[c].a.param1.lo

----------------------------------------------------------------------------
(* Properties of the agent's actions against the transaction engine *)

\* `quantum as u64`, `TRIM_BYTES`: the Action as ai_propose_action receives it
\* (a negative i32 is sign-extended)
AsProposed(action) ==
    [kind |-> action.kind,
     param1 |-> IF action.param1 >= 0 THEN U64(0, action.param1)
                ELSE U64(U32 - 1, U32 + action.param1)]

\* apply_action_atomic, system ready, does not journal REJECT for the action
PassesValidation(action) ==
    /\ GateOpen(TRUE)
    /\ is_allowed(action.kind)
    /\ validate_params(AsProposed(action))

ScoreInRange(s) == s >= -127 /\ s <= 127

\* telemetry at the ends of each u32 field, and where `as i32` changes sign
ExtremeTelemetry ==
    [irq_errors : {0},
     runq : {0, 8, U32 - 1},
     irq_rate : {0, 254, U32 \div 2 - 1, U32 \div 2, U32 - 1},
     free_kb : {0, MEM_LOW_KB, U32 - 1},
     pf_rate : {0, 1, U32 \div 2, U32 - 1}]

\* what the loaded model makes of each of them: score and action
ExtremesAccepted ==
    load_model(agent.blob) # None =>
        \A tel \in ExtremeTelemetry :
            /\ ScoreInRange(score_of(agent.blob, tel))
            /\ PassesValidation(infer_and_propose(agent.blob, tel))

\* what the last step submitted passes, with the score it used
StepAccepted ==
    /\ \A i \in DOMAIN agent.last.submitted :
          LET action == agent.last.submitted[i]
          IN  /\ PassesValidation(action)
              /\ action.kind \in {SetQuantum, TrimCache}
              /\ action.kind = SetQuantum =>
                    action.param1 >= QuantumMin /\ action.param1 <= QuantumMax
              /\ action.kind = TrimCache => action.param1 = 1024 * 1024
    /\ \A s \in agent.last.score : ScoreInRange(s)

\* C36: once system_ready, every action produced by the agent step passes the
\* transaction engine's validation (kind 1 or 4, SetQuantum param1 in
\* [100, 50000], TrimCache param1 = 1 MiB), so an agent step never yields a
\* REJECT line; the score entering the quantum formula is within [-127, 127]
\* on the inference path and on the fallback path, for all telemetry values
C36_AgentActionsPassValidation ==
    [](agent.last.n = 1 => ExtremesAccepted) /\ []StepAccepted

\* a step on the fallback path whose heuristic was far below -127 submitted
\* the smallest quantum
C36_Witness ==
    /\ agent.last.submitted # << >>
    /\ agent.last.submitted[1].kind = SetQuantum
    /\ ~has_weights(agent.blob.hdr, agent.blob.len)
    /\ \E tel \in agent.last.tel : as_i32(heuristic(tel)) < -127
    /\ agent.last.score = Some(-127)
    /\ agent.last.submitted[1].param1 = QuantumMin

\* the same on the inference path: the score is the first output neuron
InferenceStepAccepted ==
    /\ agent.last.submitted # << >>
    /\ agent.last.submitted[1].kind = SetQuantum
    /\ has_weights(agent.blob.hdr, agent.blob.len)
    /\ agent.last.score = Some(127)

----------------------------------------------------------------------------
(* Properties of the sequence numbers *)

\* the seqs on the lines of the journal
JournalSeqs == {journal[k].seq : k \in DOMAIN journal}

\* the i-th call with valid pointers obtained seq i-1; the journal holds no
\* other seq; once the calls made have returned, SEQ is their number and the
\* journal holds each of their seqs
SeqsDense ==
    /\ \A i \in DOMAIN assigned : assigned[i].seq = i - 1
    /\ JournalSeqs \subseteq 0..(Len(assigned) - 1)
    /\ (\A c \in Ctx : ctx[c].pc = "idle") =>
          /\ SEQ = Len(assigned)
          /\ JournalSeqs = 0..(Len(assigned) - 1)

\* a call that returns -1 has changed nothing else
NullCallInert ==
    \A c \in Ctx :
        (ctx[c].pc = "idle" /\ ctx'[c].pc = "idle" /\ ctx'[c] # ctx[c]) =>
            /\ ctx'[c] = [ctx[c] EXCEPT !.rv = -1]
            /\ UNCHANGED <<SYSTEM_READY, QUANTUM_US, SEQ, APPLY_LOCK, journal, assigned>>

\* C37: every propose call with non-null pointers consumes exactly one
\* sequence number whether the action is accepted, rejected or rolled back, so
\* after n such calls the seqs appearing in the journal are exactly 0..n-1
\* without gaps; a call with a null action or outcome pointer returns -1,
\* consumes no seq, journals nothing and mutates nothing
C37_OneSeqPerCall == []SeqsDense /\ [][NullCallInert]_vars

\* a rejected call and a rolled-back call have returned, and a call with a
\* null pointer after them has returned -1
C37_Witness ==
    /\ Len(assigned) = 2 /\ SEQ = 2
    /\ \E k \in DOMAIN journal : journal[k].verb = "REJECT" /\ journal[k].seq = 0
    /\ \E k \in DOMAIN journal : journal[k].verb = "APPLY_FAIL" /\ journal[k].seq = 1
    /\ ctx[1].pc = "idle" /\ ctx[1].rv = -1

----------------------------------------------------------------------------
(* Properties of the task locks *)

\* C38: run_once releases both the task-table lock and the cursor lock before
\* it invokes the callback, so a callback that itself calls register, run_once
\* or runqueue_len (as the agent step does through telemetry sampling) does
\* not deadlock, and the lock acquisition order cursor-then-table is never
\* inverted
C38_CallbackRunsUnlocked ==
    /\ task_ctx.stack # << >> => task_ctx.held = {}
    /\ task_ctx.spin = "none"
    /\ task_ctx.acquired \in {<< >>, <<"TASKS">>, <<"NEXT_INDEX", "TASKS">>}

\* a callback called run_once, whose callback registered a function and asked
\* for the length of the run queue
C38_Witness ==
    /\ Len(task_ctx.stack) = 2
    /\ task_ctx.last = "runqueue_len"
    /\ task_ctx.len >= 2

----------------------------------------------------------------------------
(* Properties of the boot order *)

\* kernel_main has enabled interrupts, after the IDT, the PIC, the PMM and the
\* xHCI driver were initialised
BootInitialised ==
    /\ boot.interrupts
    /\ \A p \in {"idt", "pic", "pmm_usb", "interrupts"} :
          \E k \in 1..(boot.i - 1) : BootOrder[k] = p

\* before interrupts are enabled the journal holds REJECT lines only, one for
\* each call the agent's steps have made, and quantum_us is untouched
OnlyRejectsBefore ==
    ~boot.interrupts =>
        /\ \A k \in DOMAIN journal : journal[k].verb = "REJECT"
        /\ \A n \in DOMAIN assigned :
              assigned[n].done => VerbsOf(assigned[n].seq) = <<"REJECT">>
        /\ QUANTUM_US = QuantumInit
        /\ ctx[1].pc \in {"idle", "seq_load", "seq_store", "gate", "ret"}

\* each run_once of the boot that lies behind has left its REJECT line
EarlyStepsJournaled ==
    (boot.model /\ ~SYSTEM_READY) =>
        Cardinality({k \in DOMAIN journal : journal[k].verb = "REJECT"}) >=
            Cardinality({k \in 1..(boot.i - 1) : BootOrder[k] \in RunOncePhases})

\* C39: during boot, set_system_ready is called only after interrupts have
\* been enabled (and after IDT, PIC, PMM and xHCI initialisation); every agent
\* step run earlier in boot is journaled as REJECT, so no INTENT line and no
\* write to quantum_us can precede the enabling of interrupts, and the latch
\* never returns to false
C39_ReadyOnlyAfterBoot ==
    /\ [](SYSTEM_READY => BootInitialised)
    /\ []OnlyRejectsBefore
    /\ []EarlyStepsJournaled
    /\ [][SYSTEM_READY => SYSTEM_READY']_vars
    /\ [][QUANTUM_US' # QUANTUM_US => (boot.interrupts /\ SYSTEM_READY)]_vars

\* the five steps of the boot were rejected and the first step of the loop
\* changed the quantum
C39_Witness ==
    /\ Phase = "main"
    /\ Len(journal) = 7
    /\ \A k \in 1..5 : journal[k].verb = "REJECT"
    /\ journal[6].verb = "INTENT" /\ journal[7].verb = "APPLY_OK"
    /\ QUANTUM_US # QuantumInit
============================================================================
